---- MODULE Spec2Model ----
(***************************************************************************)
(* Shell-command syntax validator (zev: command_validator.py).             *)
(*                                                                         *)
(* A command is a sequence of one-character strings; offsets are the       *)
(* zero-based Python offsets, so command[i] of the source is At(command,i).*)
(* Optional values are sequences: Null is Python's None, Some(x) holds x.  *)
(***************************************************************************)
EXTENDS Integers, Sequences, FiniteSets, TLC

VARIABLES command, pc, idx, ran, result, patterns, calls, tokenized, peer,
          history, requests, workflow_state, execution

vars == <<command, pc, idx, ran, result, patterns, calls, tokenized, peer,
          history, requests, workflow_state, execution>>

-----------------------------------------------------------------------------
(* Optional values and strings                                             *)

Null == <<>>
Some(x) == <<x>>

\* the argument None of validate(command): no string equals it
NoneCommand == <<"<None>">>

SQUOTE == "'"
DQUOTE == "\""
\* the backquote character (the lexer of TLA+ cannot hold it in a string)
BTICK == "BQ"
BSLASH == "\\"

\* str.isspace / str.strip / regex \s : the whitespace characters
Whitespace == {" ", "\t", "\n", "\r", "\f"}

At(s, i) == s[i + 1]

\* Python slice s[a:b] with 0 <= a, b <= len(s)
Slice(s, a, b) == IF b <= a THEN <<>> ELSE SubSeq(s, a + 1, b)

Min(a, b) == IF a <= b THEN a ELSE b
Max(a, b) == IF a >= b THEN a ELSE b

SetMin(S) == CHOOSE x \in S : \A y \in S : x <= y

isspace(s) == Len(s) > 0 /\ \A k \in 1..Len(s) : s[k] \in Whitespace

\* number of trailing / leading whitespace characters
TrailingSpaces(s) ==
    IF \A k \in 1..Len(s) : s[k] \in Whitespace THEN Len(s)
    ELSE Len(s) - SetMin({n \in 1..Len(s) : \A k \in (n + 1)..Len(s) : s[k] \in Whitespace})

LeadingSpaces(s) ==
    IF \A k \in 1..Len(s) : s[k] \in Whitespace THEN Len(s)
    ELSE SetMin({n \in 0..(Len(s) - 1) : s[n + 1] \notin Whitespace})

rstrip(s) == Slice(s, 0, Len(s) - TrailingSpaces(s))
lstrip(s) == Slice(s, LeadingSpaces(s), Len(s))
strip(s) == lstrip(rstrip(s))

endswith(s, suffix) ==
    Len(s) >= Len(suffix) /\ Slice(s, Len(s) - Len(suffix), Len(s)) = suffix

startswith(s, prefix) ==
    Len(s) >= Len(prefix) /\ Slice(s, 0, Len(prefix)) = prefix

\* the last offset of ch instead of the first
str_index_Last(s, ch) ==
    IF \E k \in 1..Len(s) : s[k] = ch
    THEN Some((CHOOSE k \in 1..Len(s) :
                  s[k] = ch /\ \A j \in (k + 1)..Len(s) : s[j] # ch) - 1)
    ELSE Null

\* str.index(ch): the first offset of ch, or the ValueError it raises (Null)
str_index(s, ch) ==
    IF \E k \in 1..Len(s) : s[k] = ch
    THEN Some(SetMin({k \in 1..Len(s) : s[k] = ch}) - 1)
    ELSE Null

-----------------------------------------------------------------------------
(* Result model                                                            *)

\* a message or suggestion: its text, and the number and string formatted in
Text(t) == Some([text |-> t, num |-> Null, str |-> <<>>])
TextNum(t, n) == Some([text |-> t, num |-> Some(n), str |-> <<>>])
TextStr(t, s) == Some([text |-> t, num |-> Null, str |-> s])
TextNumStr(t, n, s) == Some([text |-> t, num |-> Some(n), str |-> s])

ValidationResult(valid, message, code, position, sugg) ==
    [is_valid |-> valid, error_message |-> message, error_code |-> code,
     error_position |-> position, suggestion |-> sugg]

Valid == ValidationResult(TRUE, Null, Null, Null, Null)

\* an exception that leaves a check instead of a ValidationResult
Exception(kind) == [exception |-> kind]
IsException(r) == "exception" \in DOMAIN r

ValidationErrorCode ==
    {"EMPTY_COMMAND", "UNCLOSED_SINGLE_QUOTE", "UNCLOSED_DOUBLE_QUOTE",
     "UNCLOSED_BACKTICK", "TRAILING_PIPE", "TRAILING_AND", "TRAILING_OR",
     "TRAILING_REDIRECT", "TRAILING_SEMICOLON", "TRAILING_BACKSLASH",
     "LEADING_PIPE", "LEADING_AND", "LEADING_OR", "LEADING_SEMICOLON",
     "UNCLOSED_PARENTHESIS", "UNCLOSED_BRACE", "UNCLOSED_BRACKET",
     "UNMATCHED_PARENTHESIS", "UNMATCHED_BRACE", "UNMATCHED_BRACKET",
     "EMPTY_PIPE_SEGMENT", "EMPTY_AND_SEGMENT", "EMPTY_OR_SEGMENT",
     "CONSECUTIVE_SEMICOLONS", "INVALID_VARIABLE_ASSIGNMENT",
     "REDIRECT_WITHOUT_TARGET", "UNCLOSED_SUBSHELL",
     "UNCLOSED_COMMAND_SUBSTITUTION", "UNMATCHED_IF_THEN_FI",
     "UNMATCHED_FOR_DO_DONE", "UNMATCHED_WHILE_DO_DONE", "UNMATCHED_CASE_ESAC",
     "PARSE_ERROR"}

\* _get_context_snippet(command, position, context_size = 20)
context_size == 20

get_context_snippet(cmd, position) ==
    LET start == Max(0, position - context_size \div 2)
        end == Min(Len(cmd), position + context_size \div 2)
        dots == <<".", ".", ".">>
        snippet == Slice(cmd, start, end)
        s1 == IF start > 0 THEN dots \o snippet ELSE snippet
        s2 == IF end < Len(cmd) THEN s1 \o dots ELSE s1
    IN  <<"'">> \o s2 \o <<"'">>

-----------------------------------------------------------------------------
(* Pre-compiled patterns (_CompiledPatterns): the table holds the regular  *)
(* expressions' sources; re_search interprets the ones the table can hold. *)

CompiledPatterns ==
    [TRAILING_REDIRECT |-> "[<>]+\\s*$",
     INVALID_INPUT_REDIRECT |-> "<\\s+<(?!<)",
     INVALID_OUTPUT_REDIRECT |-> ">\\s+>(?!>)",
     CONSECUTIVE_SEMICOLONS |-> ";\\s*;",
     TRIPLE_SEMICOLONS |-> ";;;+",
     INVALID_VAR_ASSIGNMENT |-> "^\\s*="]

AllSpace(s, a, b) == \A k \in (a + 1)..b : s[k] \in Whitespace
AllIn(s, a, b, S) == \A k \in (a + 1)..b : s[k] \in S

\* [<>]+\s*$ matches s[a:] : a run of < > , then whitespace up to the end
MatchTrailingRedirect_OneChar(s, a) ==
    At(s, a) \in {"<", ">"} /\ AllSpace(s, a + 1, Len(s))

MatchTrailingRedirect(s, a) ==
    \E b \in (a + 1)..Len(s) : AllIn(s, a, b, {"<", ">"}) /\ AllSpace(s, b, Len(s))

\* c\s+c(?!c) matches at a
MatchSpacedPair(s, a, c) ==
    /\ At(s, a) = c
    /\ \E b \in (a + 2)..(Len(s) - 1) :
          /\ AllSpace(s, a + 1, b)
          /\ At(s, b) = c
          /\ (b + 1 < Len(s) => At(s, b + 1) # c)

\* ;\s*; matches at a
MatchConsecutiveSemicolons(s, a) ==
    /\ At(s, a) = ";"
    /\ \E b \in (a + 1)..(Len(s) - 1) : AllSpace(s, a + 1, b) /\ At(s, b) = ";"

\* ;;;+ matches at a
MatchTripleSemicolons(s, a) ==
    a + 2 < Len(s) /\ At(s, a) = ";" /\ At(s, a + 1) = ";" /\ At(s, a + 2) = ";"

\* ^\s*= matches (at offset 0 only)
MatchInvalidVarAssignment(s, a) ==
    a = 0 /\ \E b \in 0..(Len(s) - 1) : AllSpace(s, 0, b) /\ At(s, b) = "="

MatchAt(pattern, s, a) ==
    CASE pattern = "[<>]+\\s*$" -> MatchTrailingRedirect(s, a)
      [] pattern = "<\\s+<(?!<)" -> MatchSpacedPair(s, a, "<")
      [] pattern = ">\\s+>(?!>)" -> MatchSpacedPair(s, a, ">")
      [] pattern = ";\\s*;" -> MatchConsecutiveSemicolons(s, a)
      [] pattern = ";;;+" -> MatchTripleSemicolons(s, a)
      [] pattern = "^\\s*=" -> MatchInvalidVarAssignment(s, a)
      [] OTHER -> FALSE

\* pattern.search(s): the start of the leftmost match, or Null
re_search(pattern, s) ==
    LET starts == {a \in 0..(Len(s) - 1) : MatchAt(pattern, s, a)}
    IN  IF starts = {} THEN Null ELSE Some(SetMin(starts))

\* pattern.match(s): a match at offset 0, or Null
re_match(pattern, s) ==
    IF Len(s) > 0 /\ MatchAt(pattern, s, 0) THEN Some(0) ELSE Null

-----------------------------------------------------------------------------
(* shlex.split(command): the tokenizer's state after the last character.   *)
(* Only its ValueError matters to the validator; tokens are not kept.      *)

ShlexInit == [state |-> " ", escapedstate |-> " "]

ShlexStep(st, char) ==
    IF st.state = " " THEN
        IF char \in {" ", "\t", "\r", "\n"} THEN st
        ELSE IF char = BSLASH THEN [state |-> BSLASH, escapedstate |-> "a"]
        ELSE IF char \in {SQUOTE, DQUOTE} THEN [st EXCEPT !.state = char]
        ELSE [st EXCEPT !.state = "a"]
    ELSE IF st.state \in {SQUOTE, DQUOTE} THEN
        IF char = st.state THEN [st EXCEPT !.state = "a"]
        ELSE IF char = BSLASH /\ st.state = DQUOTE
             THEN [state |-> BSLASH, escapedstate |-> st.state]
        ELSE st
    ELSE IF st.state = BSLASH THEN [st EXCEPT !.state = st.escapedstate]
    ELSE \* state "a": inside a word
        IF char \in {" ", "\t", "\r", "\n"} THEN [st EXCEPT !.state = " "]
        ELSE IF char \in {SQUOTE, DQUOTE} THEN [st EXCEPT !.state = char]
        ELSE IF char = BSLASH THEN [state |-> BSLASH, escapedstate |-> "a"]
        ELSE st

RECURSIVE ShlexScan(_, _)
ShlexScan(cmd, n) ==
    IF n = 0 THEN ShlexInit
    ELSE ShlexStep(ShlexScan(cmd, n - 1), At(cmd, n - 1))

\* a tokenizer that accepts every string
shlex_split_error_Accepts(cmd) == Null

\* the ValueError message shlex.split raises, or Null when it returns tokens
shlex_split_error(cmd) ==
    LET st == ShlexScan(cmd, Len(cmd))
    IN  IF st.state \in {SQUOTE, DQUOTE} THEN Some(<<"No closing quotation">>)
        ELSE IF st.state = BSLASH THEN Some(<<"No escaped character">>)
        ELSE Null

-----------------------------------------------------------------------------
(* _check_quotes_detailed                                                   *)

QuoteInit ==
    [single_quote_start |-> Null, double_quote_start |-> Null,
     backtick_start |-> Null, escaped |-> FALSE]

\* a backslash escapes wherever it stands
BackslashEscapes_Everywhere(st) == TRUE

\* the backslash sets escaped: inside double quotes, or outside every region
BackslashEscapes(st) ==
    \/ st.double_quote_start # Null
    \/ (st.single_quote_start = Null /\ st.backtick_start = Null)

\* one iteration of the loop over enumerate(command)
QuoteStep(st, i, char) ==
    IF st.escaped THEN [st EXCEPT !.escaped = FALSE]
    ELSE IF char = BSLASH THEN
        IF BackslashEscapes(st) THEN [st EXCEPT !.escaped = TRUE] ELSE st
    ELSE IF char = SQUOTE /\ st.double_quote_start = Null /\ st.backtick_start = Null THEN
        [st EXCEPT !.single_quote_start =
            IF st.single_quote_start = Null THEN Some(i) ELSE Null]
    ELSE IF char = DQUOTE /\ st.single_quote_start = Null /\ st.backtick_start = Null THEN
        [st EXCEPT !.double_quote_start =
            IF st.double_quote_start = Null THEN Some(i) ELSE Null]
    ELSE IF char = BTICK /\ st.single_quote_start = Null THEN
        [st EXCEPT !.backtick_start =
            IF st.backtick_start = Null THEN Some(i) ELSE Null]
    ELSE st

\* the scan state after the first n characters
RECURSIVE QuoteScan(_, _)
QuoteScan(cmd, n) ==
    IF n = 0 THEN QuoteInit
    ELSE QuoteStep(QuoteScan(cmd, n - 1), n - 1, At(cmd, n - 1))

UnclosedQuoteResult_ScanEnd(cmd, start, text, code, sugg) ==
    ValidationResult(FALSE,
        TextNumStr(text, Len(cmd) - 1, get_context_snippet(cmd, Len(cmd) - 1)),
        Some(code), Some(Len(cmd) - 1), Text(sugg))

UnclosedQuoteResult(cmd, start, text, code, sugg) ==
    ValidationResult(FALSE,
        TextNumStr(text, start, get_context_snippet(cmd, start)),
        Some(code), Some(start), Text(sugg))

\* the ValueError of shlex.split leaves the check uncaught
ParseErrorResult_Uncaught(error_msg) == Exception("ValueError")

\* except ValueError as e: the error is returned as a result
ParseErrorResult(error_msg) ==
    ValidationResult(FALSE, TextStr("Shell parsing error: {s}", error_msg),
        Some("PARSE_ERROR"), Null,
        Text("Check for unclosed quotes or escape sequences"))

check_quotes_detailed(cmd, pats) ==
    LET st == QuoteScan(cmd, Len(cmd))
        err == shlex_split_error(cmd)
    IN  IF st.single_quote_start # Null THEN
            UnclosedQuoteResult(cmd, st.single_quote_start[1],
                "Unclosed single quote starting at position {n}: {s}",
                "UNCLOSED_SINGLE_QUOTE",
                "Add a closing single quote (') to match the opening quote")
        ELSE IF st.double_quote_start # Null THEN
            UnclosedQuoteResult(cmd, st.double_quote_start[1],
                "Unclosed double quote starting at position {n}: {s}",
                "UNCLOSED_DOUBLE_QUOTE",
                "Add a closing double quote (\") to match the opening quote")
        ELSE IF st.backtick_start # Null THEN
            UnclosedQuoteResult(cmd, st.backtick_start[1],
                "Unclosed backtick starting at position {n}: {s}",
                "UNCLOSED_BACKTICK",
                "Add a closing backtick or use $(...) for command substitution instead")
        ELSE IF err # Null THEN ParseErrorResult(err[1])
        ELSE Valid

-----------------------------------------------------------------------------
(* _check_trailing_operators                                                *)

\* the position reported is that of the operator's last character
OperatorStart_LastChar(n, op_len) == n - 1

\* len(stripped) - len(operator): the offset where a trailing operator starts
OperatorStart(n, op_len) == n - op_len

check_trailing_operators(cmd, pats) ==
    LET stripped == rstrip(cmd)
        n == Len(stripped)
        redirect_match == re_search(pats.TRAILING_REDIRECT, stripped)
        op == Slice(stripped, redirect_match[1], n)
    IN  IF n = 0 THEN Valid
        ELSE IF endswith(stripped, <<"|">>) /\ ~endswith(stripped, <<"|", "|">>) THEN
            ValidationResult(FALSE,
                Text("Command ends with incomplete pipe operator '|'"),
                Some("TRAILING_PIPE"), Some(OperatorStart(n, 1)),
                Text("Add a command after the pipe, e.g., 'cmd1 | cmd2'"))
        ELSE IF endswith(stripped, <<"&", "&">>) THEN
            ValidationResult(FALSE,
                Text("Command ends with incomplete AND operator '&&'"),
                Some("TRAILING_AND"), Some(OperatorStart(n, 2)),
                Text("Add a command after &&, e.g., 'cmd1 && cmd2'"))
        ELSE IF endswith(stripped, <<"|", "|">>) THEN
            ValidationResult(FALSE,
                Text("Command ends with incomplete OR operator '||'"),
                Some("TRAILING_OR"), Some(OperatorStart(n, 2)),
                Text("Add a command after ||, e.g., 'cmd1 || cmd2'"))
        ELSE IF /\ endswith(stripped, <<"&">>) /\ ~endswith(stripped, <<"&", "&">>)
                /\ n >= 2 /\ At(stripped, n - 2) \in {"<", ">"} THEN
            ValidationResult(FALSE,
                Text("Redirection operator missing target file"),
                Some("REDIRECT_WITHOUT_TARGET"), Some(n - 1),
                Text("Specify a file after the redirection, e.g., 'cmd &> file'"))
        ELSE IF redirect_match # Null THEN
            ValidationResult(FALSE,
                TextStr("Redirection operator '{s}' missing target file", strip(op)),
                Some("REDIRECT_WITHOUT_TARGET"), Some(redirect_match[1]),
                TextStr("Specify a file after '{s}', e.g., 'cmd {s} filename'", strip(op)))
        ELSE IF endswith(stripped, <<";">>) /\ stripped = <<";">> THEN
            ValidationResult(FALSE,
                Text("Command contains only a semicolon"),
                Some("TRAILING_SEMICOLON"), Some(0),
                Text("Provide a command before the semicolon"))
        ELSE IF endswith(stripped, <<BSLASH>>) THEN
            ValidationResult(FALSE,
                Text("Command ends with line continuation backslash but no following line"),
                Some("TRAILING_BACKSLASH"), Some(n - 1),
                Text("Remove the trailing backslash or add the continued command"))
        ELSE Valid

-----------------------------------------------------------------------------
(* _check_leading_operators                                                 *)

\* every branch looks up the pipe character (a copied line)
LeadingResult_CopiedIndex(cmd, ch, text, code, sugg) ==
    LET pos == str_index(cmd, "|")
    IN  IF pos = Null THEN Exception("ValueError")
        ELSE ValidationResult(FALSE, Text(text), Some(code), pos, Text(sugg))

\* a result positioned by command.index(ch), or the ValueError index raises
LeadingResult(cmd, ch, text, code, sugg) ==
    LET pos == str_index(cmd, ch)
    IN  IF pos = Null THEN Exception("ValueError")
        ELSE ValidationResult(FALSE, Text(text), Some(code), pos, Text(sugg))

check_leading_operators(cmd, pats) ==
    LET stripped == lstrip(cmd)
    IN  IF Len(stripped) = 0 THEN Valid
        ELSE IF startswith(stripped, <<"|">>) /\ ~startswith(stripped, <<"|", "|">>) THEN
            LeadingResult(cmd, "|", "Command cannot start with pipe operator '|'",
                "LEADING_PIPE",
                "Pipes connect commands; add a command before '|', e.g., 'cmd1 | cmd2'")
        ELSE IF startswith(stripped, <<"&", "&">>) THEN
            LeadingResult(cmd, "&", "Command cannot start with AND operator '&&'",
                "LEADING_AND",
                "'&&' chains commands; add a command before it, e.g., 'cmd1 && cmd2'")
        ELSE IF startswith(stripped, <<"|", "|">>) THEN
            LeadingResult(cmd, "|", "Command cannot start with OR operator '||'",
                "LEADING_OR",
                "'||' provides fallback; add a command before it, e.g., 'cmd1 || cmd2'")
        ELSE IF startswith(stripped, <<";">>) THEN
            LeadingResult(cmd, ";", "Command cannot start with semicolon ';'",
                "LEADING_SEMICOLON",
                "Remove the leading semicolon or add a command before it")
        ELSE Valid

-----------------------------------------------------------------------------
(* _extract_unquoted_words                                                  *)

WordBreak == {";", "|", "&", "<", ">", "(", ")", "{", "}"}

WordsInit ==
    [words |-> <<>>, current_word |-> <<>>, in_single_quote |-> FALSE,
     in_double_quote |-> FALSE, escaped |-> FALSE]

\* if in_single_quote or in_double_quote: continue
SkipsQuoted(st) == st.in_single_quote \/ st.in_double_quote

\* one iteration of the loop over the characters
WordsStep(st, char) ==
    IF st.escaped THEN
        IF ~st.in_single_quote /\ ~st.in_double_quote
        THEN [st EXCEPT !.escaped = FALSE, !.current_word = Append(@, char)]
        ELSE [st EXCEPT !.escaped = FALSE]
    ELSE IF char = BSLASH /\ ~st.in_single_quote THEN [st EXCEPT !.escaped = TRUE]
    ELSE IF char = SQUOTE /\ ~st.in_double_quote THEN
        [st EXCEPT !.in_single_quote = ~@]
    ELSE IF char = DQUOTE /\ ~st.in_single_quote THEN
        [st EXCEPT !.in_double_quote = ~@]
    ELSE IF SkipsQuoted(st) THEN st
    ELSE IF char \in Whitespace \/ char \in WordBreak THEN
        IF st.current_word # <<>>
        THEN [st EXCEPT !.words = Append(@, st.current_word), !.current_word = <<>>]
        ELSE st
    ELSE [st EXCEPT !.current_word = Append(@, char)]

RECURSIVE WordsScan(_, _)
WordsScan(cmd, n) ==
    IF n = 0 THEN WordsInit
    ELSE WordsStep(WordsScan(cmd, n - 1), At(cmd, n - 1))

extract_unquoted_words(cmd) ==
    LET st == WordsScan(cmd, Len(cmd))
    IN  IF st.current_word # <<>> THEN Append(st.words, st.current_word) ELSE st.words

\* word in words
Contains(words, word) == \E k \in 1..Len(words) : words[k] = word

Word_case == <<"c", "a", "s", "e">>
Word_in == <<"i", "n">>
Word_esac == <<"e", "s", "a", "c">>
Word_if == <<"i", "f">>
Word_fi == <<"f", "i">>
Word_for == <<"f", "o", "r">>
Word_while == <<"w", "h", "i", "l", "e">>
Word_until == <<"u", "n", "t", "i", "l">>
Word_select == <<"s", "e", "l", "e", "c", "t">>
Word_done == <<"d", "o", "n", "e">>

-----------------------------------------------------------------------------
(* _check_balanced_delimiters_detailed                                      *)

Top(stack) == stack[Len(stack)]

\* a pop that leaves the entry on the stack
Pop_Peek(stack) == stack

Pop(stack) == SubSeq(stack, 1, Len(stack) - 1)

DelimInit ==
    [i |-> 0, paren_stack |-> <<>>, brace_stack |-> <<>>, bracket_stack |-> <<>>,
     subshell_stack |-> <<>>, in_single_quote |-> FALSE, in_double_quote |-> FALSE,
     escaped |-> FALSE, ret |-> Null]

UnmatchedResult(cmd, i, text, code, sugg) ==
    ValidationResult(FALSE, TextNumStr(text, i, get_context_snippet(cmd, i)),
        Some(code), Some(i), Text(sugg))

\* a closing parenthesis that closes a "(" whenever one is open
CloseParen_ParenFirst(cmd, st, has_case) ==
    IF st.paren_stack # <<>> THEN [st EXCEPT !.paren_stack = Pop(@), !.i = @ + 1]
    ELSE IF st.subshell_stack # <<>>
         THEN [st EXCEPT !.subshell_stack = Pop(@), !.i = @ + 1]
    ELSE IF has_case THEN [st EXCEPT !.i = @ + 1]
    ELSE [st EXCEPT !.ret = Some(UnmatchedResult(cmd, st.i,
            "Unmatched closing parenthesis ')' at position {n}: {s}",
            "UNMATCHED_PARENTHESIS",
            "Remove the extra ')' or add a matching '(' earlier in the command"))]

\* what a closing parenthesis at offset i does
CloseParen(cmd, st, has_case) ==
    IF /\ st.subshell_stack # <<>>
       /\ (st.paren_stack = <<>> \/ Top(st.subshell_stack) > Top(st.paren_stack))
    THEN [st EXCEPT !.subshell_stack = Pop(@), !.i = @ + 1]
    ELSE IF st.paren_stack # <<>> THEN [st EXCEPT !.paren_stack = Pop(@), !.i = @ + 1]
    ELSE IF has_case THEN [st EXCEPT !.i = @ + 1]
    ELSE [st EXCEPT !.ret = Some(UnmatchedResult(cmd, st.i,
            "Unmatched closing parenthesis ')' at position {n}: {s}",
            "UNMATCHED_PARENTHESIS",
            "Remove the extra ')' or add a matching '(' earlier in the command"))]

CloseBrace_AnyStack(cmd, st) ==
    IF st.brace_stack # <<>> THEN [st EXCEPT !.brace_stack = Pop(@), !.i = @ + 1]
    ELSE IF st.bracket_stack # <<>> THEN [st EXCEPT !.bracket_stack = Pop(@), !.i = @ + 1]
    ELSE [st EXCEPT !.ret = Some(UnmatchedResult(cmd, st.i,
            "Unmatched closing brace '}' at position {n}: {s}",
            "UNMATCHED_BRACE",
            "Remove the extra '}}' or add a matching '{{' earlier in the command"))]

CloseBrace(cmd, st) ==
    IF st.brace_stack # <<>> THEN [st EXCEPT !.brace_stack = Pop(@), !.i = @ + 1]
    ELSE [st EXCEPT !.ret = Some(UnmatchedResult(cmd, st.i,
            "Unmatched closing brace '}' at position {n}: {s}",
            "UNMATCHED_BRACE",
            "Remove the extra '}}' or add a matching '{{' earlier in the command"))]

CloseBracket(cmd, st) ==
    IF st.bracket_stack # <<>> THEN [st EXCEPT !.bracket_stack = Pop(@), !.i = @ + 1]
    ELSE [st EXCEPT !.ret = Some(UnmatchedResult(cmd, st.i,
            "Unmatched closing bracket ']' at position {n}: {s}",
            "UNMATCHED_BRACKET",
            "Remove the extra ']' or add a matching '[' earlier in the command"))]

\* a "$(" at offset i: the offset pushed is that of the "$"
PushSubshell_ParenOffset(st) ==
    [st EXCEPT !.subshell_stack = Append(@, st.i + 1), !.i = @ + 2]

PushSubshell(st) ==
    [st EXCEPT !.subshell_stack = Append(@, st.i), !.i = @ + 2]

\* one iteration of the while loop, entered with i < len(command)
DelimStep(cmd, st, has_case) ==
    LET char == At(cmd, st.i)
    IN  IF st.escaped THEN [st EXCEPT !.escaped = FALSE, !.i = @ + 1]
        ELSE IF char = BSLASH /\ ~st.in_single_quote THEN
            [st EXCEPT !.escaped = TRUE, !.i = @ + 1]
        ELSE IF char = SQUOTE /\ ~st.in_double_quote THEN
            [st EXCEPT !.in_single_quote = ~@, !.i = @ + 1]
        ELSE IF char = DQUOTE /\ ~st.in_single_quote THEN
            [st EXCEPT !.in_double_quote = ~@, !.i = @ + 1]
        ELSE IF st.in_single_quote \/ st.in_double_quote THEN [st EXCEPT !.i = @ + 1]
        ELSE IF char = "$" /\ st.i + 1 < Len(cmd) /\ At(cmd, st.i + 1) = "(" THEN
            PushSubshell(st)
        ELSE IF char = "(" THEN [st EXCEPT !.paren_stack = Append(@, st.i), !.i = @ + 1]
        ELSE IF char = ")" THEN CloseParen(cmd, st, has_case)
        ELSE IF char = "{" THEN [st EXCEPT !.brace_stack = Append(@, st.i), !.i = @ + 1]
        ELSE IF char = "}" THEN CloseBrace(cmd, st)
        ELSE IF char = "[" THEN [st EXCEPT !.bracket_stack = Append(@, st.i), !.i = @ + 1]
        ELSE IF char = "]" THEN CloseBracket(cmd, st)
        ELSE [st EXCEPT !.i = @ + 1]

\* a pre-scan that never finds a case statement
HasCaseIn_Never(cmd) == FALSE

\* the case-statement pre-scan: "case" in words and "in" in words
HasCaseIn(cmd) ==
    LET words == extract_unquoted_words(cmd)
    IN  Contains(words, Word_case) /\ Contains(words, Word_in)

\* the while loop, run from state st until the end of the command or a return
RECURSIVE DelimLoop(_, _, _)
DelimLoop(cmd, st, has_case) ==
    IF st.i >= Len(cmd) \/ st.ret # Null THEN st
    ELSE DelimLoop(cmd, DelimStep(cmd, st, has_case), has_case)

UnclosedResult(cmd, pos, text, code, sugg) ==
    ValidationResult(FALSE, TextNumStr(text, pos, get_context_snippet(cmd, pos)),
        Some(code), Some(pos), Text(sugg))

\* the other code the enumeration holds for an open $(
SubshellCode_Subshell == "UNCLOSED_SUBSHELL"

\* the code returned for a subshell_stack that is not empty
SubshellCode == "UNCLOSED_COMMAND_SUBSTITUTION"

\* the checks after the loop: the first non-empty stack, in the source's order
DelimFinal(cmd, st) ==
    IF st.subshell_stack # <<>> THEN
        UnclosedResult(cmd, st.subshell_stack[1],
            "Unclosed command substitution '$(' starting at position {n}: {s}",
            SubshellCode,
            "Add a closing ')' to complete the $(...) command substitution")
    ELSE IF st.paren_stack # <<>> THEN
        UnclosedResult(cmd, st.paren_stack[1],
            "Unclosed parenthesis '(' starting at position {n}: {s}",
            "UNCLOSED_PARENTHESIS",
            "Add a closing ')' to match the opening '('")
    ELSE IF st.brace_stack # <<>> THEN
        UnclosedResult(cmd, st.brace_stack[1],
            "Unclosed brace '{' starting at position {n}: {s}",
            "UNCLOSED_BRACE",
            "Add a closing '}}' to match the opening '{{'")
    ELSE IF st.bracket_stack # <<>> THEN
        UnclosedResult(cmd, st.bracket_stack[1],
            "Unclosed bracket '[' starting at position {n}: {s}",
            "UNCLOSED_BRACKET",
            "Add a closing ']' to match the opening '['")
    ELSE Valid

check_balanced_delimiters_detailed(cmd, pats) ==
    LET st == DelimLoop(cmd, DelimInit, HasCaseIn(cmd))
    IN  IF st.ret # Null THEN st.ret[1] ELSE DelimFinal(cmd, st)

-----------------------------------------------------------------------------
(* _split_by_operator                                                       *)

SplitInit ==
    [segments |-> <<>>, current |-> <<>>, in_single_quote |-> FALSE,
     in_double_quote |-> FALSE, paren_depth |-> 0, escaped |-> FALSE, i |-> 0]

\* a split at any depth
SplitDepth_Any(depth) == TRUE

\* paren_depth == 0: the operator is looked for outside parentheses only
SplitDepth(depth) == depth = 0

\* one iteration of the while loop, entered with i < cmd_len
SplitStep(cmd, operator, exclude_double, st) ==
    LET char == At(cmd, st.i)
        op_len == Len(operator)
        depth == IF char = "(" THEN st.paren_depth + 1
                 ELSE IF char = ")" THEN st.paren_depth - 1
                 ELSE st.paren_depth
        at_operator ==
            /\ SplitDepth(depth)
            /\ Slice(cmd, st.i, Min(Len(cmd), st.i + op_len)) = operator
    IN  IF st.escaped THEN
            [st EXCEPT !.current = Append(@, char), !.escaped = FALSE, !.i = @ + 1]
        ELSE IF char = BSLASH /\ ~st.in_single_quote THEN
            [st EXCEPT !.current = Append(@, char), !.escaped = TRUE, !.i = @ + 1]
        ELSE IF char = SQUOTE /\ ~st.in_double_quote THEN
            [st EXCEPT !.in_single_quote = ~@, !.current = Append(@, char), !.i = @ + 1]
        ELSE IF char = DQUOTE /\ ~st.in_single_quote THEN
            [st EXCEPT !.in_double_quote = ~@, !.current = Append(@, char), !.i = @ + 1]
        ELSE IF st.in_single_quote \/ st.in_double_quote THEN
            [st EXCEPT !.current = Append(@, char), !.i = @ + 1]
        ELSE IF at_operator THEN
            IF /\ exclude_double /\ op_len = 1
               /\ st.i + 1 < Len(cmd) /\ <<At(cmd, st.i + 1)>> = operator
            THEN [st EXCEPT !.paren_depth = depth, !.current = Append(@, char),
                            !.i = @ + 1]
            ELSE [st EXCEPT !.paren_depth = depth,
                            !.segments = Append(@, st.current), !.current = <<>>,
                            !.i = @ + op_len]
        ELSE [st EXCEPT !.paren_depth = depth, !.current = Append(@, char), !.i = @ + 1]

RECURSIVE SplitLoop(_, _, _, _)
SplitLoop(cmd, operator, exclude_double, st) ==
    IF st.i >= Len(cmd) THEN st
    ELSE SplitLoop(cmd, operator, exclude_double,
                   SplitStep(cmd, operator, exclude_double, st))

split_by_operator(cmd, operator, exclude_double) ==
    LET st == SplitLoop(cmd, operator, exclude_double, SplitInit)
    IN  Append(st.segments, st.current)

-----------------------------------------------------------------------------
(* _check_pipe_chain_integrity, _check_logical_operator_chains              *)

\* the 0-based indexes of the segments that are empty after strip()
EmptyInterior(segments) ==
    {i \in 0..(Len(segments) - 1) :
        /\ strip(segments[i + 1]) = <<>>
        /\ 0 < i /\ i < Len(segments) - 1}

check_pipe_chain_integrity(cmd, pats) ==
    LET segments == split_by_operator(cmd, <<"|">>, TRUE)
        empty == EmptyInterior(segments)
    IN  IF empty # {} THEN
            ValidationResult(FALSE,
                TextNum("Empty command in pipe chain at segment {n}", SetMin(empty) + 1),
                Some("EMPTY_PIPE_SEGMENT"), Null,
                Text("Each segment in a pipe chain must contain a command, e.g., 'cmd1 | cmd2 | cmd3'"))
        ELSE Valid

check_logical_operator_chains(cmd, pats) ==
    LET and_segments == split_by_operator(cmd, <<"&", "&">>, FALSE)
        or_segments == split_by_operator(cmd, <<"|", "|">>, FALSE)
    IN  IF EmptyInterior(and_segments) # {} THEN
            ValidationResult(FALSE,
                Text("Empty command between '&&' operators"),
                Some("EMPTY_AND_SEGMENT"), Null,
                Text("Add a command between the '&&' operators, e.g., 'cmd1 && cmd2 && cmd3'"))
        ELSE IF EmptyInterior(or_segments) # {} THEN
            ValidationResult(FALSE,
                Text("Empty command between '||' operators"),
                Some("EMPTY_OR_SEGMENT"), Null,
                Text("Add a command between the '||' operators, e.g., 'cmd1 || cmd2 || cmd3'"))
        ELSE Valid

-----------------------------------------------------------------------------
(* _check_redirections_detailed, _check_command_structure_detailed          *)

check_redirections_detailed(cmd, pats) ==
    LET in_match == re_search(pats.INVALID_INPUT_REDIRECT, cmd)
        out_match == re_search(pats.INVALID_OUTPUT_REDIRECT, cmd)
    IN  IF in_match # Null THEN
            ValidationResult(FALSE,
                Text("Invalid redirection '< <' - did you mean '<<' (here-doc) or '<<<' (here-string)?"),
                Some("REDIRECT_WITHOUT_TARGET"), in_match,
                Text("Use '<<' for here-documents or '<<<' for here-strings"))
        ELSE IF out_match # Null THEN
            ValidationResult(FALSE,
                Text("Invalid redirection '> >' - did you mean '>>' (append)?"),
                Some("REDIRECT_WITHOUT_TARGET"), out_match,
                Text("Use '>>' without space for append redirection"))
        ELSE Valid

check_command_structure_detailed(cmd, pats) ==
    LET words == extract_unquoted_words(cmd)
        has_case == Contains(words, Word_case)
        semi == re_search(pats.CONSECUTIVE_SEMICOLONS, cmd)
        triple == re_search(pats.TRIPLE_SEMICOLONS, cmd)
        eq == str_index(cmd, "=")
    IN  IF ~has_case /\ semi # Null THEN
            ValidationResult(FALSE,
                TextNum("Multiple consecutive semicolons at position {n}", semi[1]),
                Some("CONSECUTIVE_SEMICOLONS"), semi,
                Text("Remove extra semicolons; use single ';' to separate commands"))
        ELSE IF has_case /\ triple # Null THEN
            ValidationResult(FALSE,
                TextNum("Too many consecutive semicolons at position {n}", triple[1]),
                Some("CONSECUTIVE_SEMICOLONS"), triple,
                Text("Use ';;' to end case patterns, not more semicolons"))
        ELSE IF re_match(pats.INVALID_VAR_ASSIGNMENT, cmd) # Null THEN
            IF eq = Null THEN Exception("ValueError")
            ELSE ValidationResult(FALSE,
                Text("Invalid variable assignment - missing variable name before '='"),
                Some("INVALID_VARIABLE_ASSIGNMENT"), eq,
                Text("Variable assignment requires a name, e.g., 'VAR=value'"))
        ELSE Valid

-----------------------------------------------------------------------------
(* _check_control_flow_keywords                                             *)

KeywordInit ==
    [if_count |-> 0, for_count |-> 0, while_count |-> 0, until_count |-> 0,
     case_count |-> 0, select_count |-> 0, ret |-> Null]

\* the closing keyword without an opener is noted nowhere
UnmatchedKeyword_NoReturn(text, code, sugg) == Null

UnmatchedKeyword(text, code, sugg) ==
    Some(ValidationResult(FALSE, Text(text), Some(code), Null, Text(sugg)))

\* the message always reports one unclosed statement
UnclosedKeyword_CountOne(text, count, code, sugg) ==
    ValidationResult(FALSE, TextNum(text, 1), Some(code), Null, Text(sugg))

UnclosedKeyword(text, count, code, sugg) ==
    ValidationResult(FALSE, TextNum(text, count), Some(code), Null, Text(sugg))

UnmatchedDone ==
    UnmatchedKeyword(
        "Unmatched 'done' - missing corresponding 'for', 'while', 'until', or 'select'",
        "UNMATCHED_FOR_DO_DONE",
        "Add a loop statement before 'done', or remove the extra 'done'")

\* done closes the loop tried last by the source
CloseLoop_SelectFirst(st) ==
    IF st.select_count > 0 THEN [st EXCEPT !.select_count = @ - 1]
    ELSE IF st.until_count > 0 THEN [st EXCEPT !.until_count = @ - 1]
    ELSE IF st.while_count > 0 THEN [st EXCEPT !.while_count = @ - 1]
    ELSE IF st.for_count > 0 THEN [st EXCEPT !.for_count = @ - 1]
    ELSE [st EXCEPT !.ret = UnmatchedDone]

\* done closes a for loop and nothing else
CloseLoop_ForOnly(st) ==
    IF st.for_count > 0 THEN [st EXCEPT !.for_count = @ - 1]
    ELSE [st EXCEPT !.ret = UnmatchedDone]

\* the branch of the word done
CloseLoop(st) ==
    IF st.for_count > 0 THEN [st EXCEPT !.for_count = @ - 1]
    ELSE IF st.while_count > 0 THEN [st EXCEPT !.while_count = @ - 1]
    ELSE IF st.until_count > 0 THEN [st EXCEPT !.until_count = @ - 1]
    ELSE IF st.select_count > 0 THEN [st EXCEPT !.select_count = @ - 1]
    ELSE [st EXCEPT !.ret = UnmatchedDone]

\* one iteration of the loop over the words; a set ret is the early return
KeywordStep(st, word) ==
    IF st.ret # Null THEN st
    ELSE IF word = Word_if THEN [st EXCEPT !.if_count = @ + 1]
    ELSE IF word = Word_fi THEN
        IF st.if_count - 1 < 0
        THEN [st EXCEPT !.if_count = @ - 1, !.ret = UnmatchedKeyword(
                "Unmatched 'fi' - missing corresponding 'if'",
                "UNMATCHED_IF_THEN_FI",
                "Add an 'if' statement before 'fi', or remove the extra 'fi'")]
        ELSE [st EXCEPT !.if_count = @ - 1]
    ELSE IF word = Word_for THEN [st EXCEPT !.for_count = @ + 1]
    ELSE IF word = Word_while THEN [st EXCEPT !.while_count = @ + 1]
    ELSE IF word = Word_until THEN [st EXCEPT !.until_count = @ + 1]
    ELSE IF word = Word_select THEN [st EXCEPT !.select_count = @ + 1]
    ELSE IF word = Word_done THEN CloseLoop(st)
    ELSE IF word = Word_case THEN [st EXCEPT !.case_count = @ + 1]
    ELSE IF word = Word_esac THEN
        IF st.case_count - 1 < 0
        THEN [st EXCEPT !.case_count = @ - 1, !.ret = UnmatchedKeyword(
                "Unmatched 'esac' - missing corresponding 'case'",
                "UNMATCHED_CASE_ESAC",
                "Add a 'case' statement before 'esac', or remove the extra 'esac'")]
        ELSE [st EXCEPT !.case_count = @ - 1]
    ELSE st

\* the counters after the first n words
RECURSIVE KeywordScan(_, _)
KeywordScan(words, n) ==
    IF n = 0 THEN KeywordInit
    ELSE KeywordStep(KeywordScan(words, n - 1), words[n])

\* the checks after the loop, in the source's order
KeywordFinal(st) ==
    IF st.if_count > 0 THEN
        UnclosedKeyword("Unclosed 'if' statement - missing 'fi' ({n} unclosed)",
            st.if_count, "UNMATCHED_IF_THEN_FI",
            "Add 'fi' to close the 'if' statement: if condition; then commands; fi")
    ELSE IF st.for_count > 0 THEN
        UnclosedKeyword("Unclosed 'for' loop - missing 'done' ({n} unclosed)",
            st.for_count, "UNMATCHED_FOR_DO_DONE",
            "Add 'done' to close the 'for' loop: for var in list; do commands; done")
    ELSE IF st.while_count > 0 THEN
        UnclosedKeyword("Unclosed 'while' loop - missing 'done' ({n} unclosed)",
            st.while_count, "UNMATCHED_WHILE_DO_DONE",
            "Add 'done' to close the 'while' loop: while condition; do commands; done")
    ELSE IF st.until_count > 0 THEN
        UnclosedKeyword("Unclosed 'until' loop - missing 'done' ({n} unclosed)",
            st.until_count, "UNMATCHED_WHILE_DO_DONE",
            "Add 'done' to close the 'until' loop: until condition; do commands; done")
    ELSE IF st.select_count > 0 THEN
        UnclosedKeyword("Unclosed 'select' statement - missing 'done' ({n} unclosed)",
            st.select_count, "UNMATCHED_FOR_DO_DONE",
            "Add 'done' to close the 'select' statement: select var in list; do commands; done")
    ELSE IF st.case_count > 0 THEN
        UnclosedKeyword("Unclosed 'case' statement - missing 'esac' ({n} unclosed)",
            st.case_count, "UNMATCHED_CASE_ESAC",
            "Add 'esac' to close the 'case' statement: case $var in pattern) commands;; esac")
    ELSE Valid

check_control_flow_keywords(cmd, pats) ==
    LET words == extract_unquoted_words(cmd)
        st == KeywordScan(words, Len(words))
    IN  IF st.ret # Null THEN st.ret[1] ELSE KeywordFinal(st)

-----------------------------------------------------------------------------
(* validate                                                                 *)

\* the list with the delimiter check moved before the operator checks
checks_DelimitersFirst ==
    <<"_check_quotes_detailed", "_check_balanced_delimiters_detailed",
      "_check_trailing_operators", "_check_leading_operators",
      "_check_pipe_chain_integrity", "_check_logical_operator_chains",
      "_check_redirections_detailed", "_check_command_structure_detailed",
      "_check_control_flow_keywords">>

\* the list of checks, in the order validate runs them
checks ==
    <<"_check_quotes_detailed", "_check_trailing_operators",
      "_check_leading_operators", "_check_balanced_delimiters_detailed",
      "_check_pipe_chain_integrity", "_check_logical_operator_chains",
      "_check_redirections_detailed", "_check_command_structure_detailed",
      "_check_control_flow_keywords">>

\* check(command) for the check of that name
RunCheckNamed(name, cmd, pats) ==
    CASE name = "_check_quotes_detailed" -> check_quotes_detailed(cmd, pats)
      [] name = "_check_trailing_operators" -> check_trailing_operators(cmd, pats)
      [] name = "_check_leading_operators" -> check_leading_operators(cmd, pats)
      [] name = "_check_balanced_delimiters_detailed" ->
            check_balanced_delimiters_detailed(cmd, pats)
      [] name = "_check_pipe_chain_integrity" -> check_pipe_chain_integrity(cmd, pats)
      [] name = "_check_logical_operator_chains" ->
            check_logical_operator_chains(cmd, pats)
      [] name = "_check_redirections_detailed" -> check_redirections_detailed(cmd, pats)
      [] name = "_check_command_structure_detailed" ->
            check_command_structure_detailed(cmd, pats)
      [] name = "_check_control_flow_keywords" -> check_control_flow_keywords(cmd, pats)

NoneGuard(cmd) == cmd = NoneCommand

\* only the empty string is caught: the isspace() test is missing
EmptyGuard_NoIsspace(cmd) == cmd = <<>>

\* not command or command.isspace()
EmptyGuard(cmd) == cmd = <<>> \/ isspace(cmd)

\* a result built without its error code
EmptyResult_NoCode ==
    ValidationResult(FALSE, Text("Command is empty or contains only whitespace"),
        Null, Null, Text("Provide a non-empty shell command"))

NoneResult ==
    ValidationResult(FALSE, Text("Command cannot be None"), Some("EMPTY_COMMAND"),
        Null, Text("Provide a valid shell command string"))

EmptyResult ==
    ValidationResult(FALSE, Text("Command is empty or contains only whitespace"),
        Some("EMPTY_COMMAND"), Null, Text("Provide a non-empty shell command"))

-----------------------------------------------------------------------------
(* The commands validate is called with                                     *)

\* the longest command built from the core fragments, in fragments
MaxFrags == 3

\* the longest command built from all the characters, in characters
MaxShort == 2

Chars ==
    {"a", " ", "\t", SQUOTE, DQUOTE, BTICK, BSLASH, "|", "&", ";", "<", ">",
     "(", ")", "{", "}", "[", "]", "$", "="}

CoreChars ==
    {"a", " ", SQUOTE, DQUOTE, BTICK, BSLASH, "|", "&", ";", ">", "(", ")"}

\* a keyword followed by a space
Spaced(word) == word \o <<" ">>

CoreKeywords ==
    {Spaced(Word_if), Spaced(Word_fi), Spaced(Word_for), Spaced(Word_done),
     Spaced(Word_case), Spaced(Word_esac)}

CoreFragments == {<<c>> : c \in CoreChars} \cup CoreKeywords

\* the concatenations of at most n fragments of F
RECURSIVE Concats(_, _)
Concats(F, n) ==
    IF n = 0 THEN {<<>>}
    ELSE LET shorter == Concats(F, n - 1)
         IN  shorter \cup {w \o f : w \in shorter, f \in F}

\* the scenarios of the documentation
Ex_echo_hello == <<"e", "c", "h", "o", " ", "'", "h", "e", "l", "l", "o">>
Ex_ls_pipe == <<"l", "s", " ", "|">>
Ex_ls_grep == <<"l", "s", " ", "|", " ", "g", "r", "e", "p", " ", "f", "o", "o">>

Ex_case_esac ==
    <<"c", "a", "s", "e", " ", "$", "x", " ", "i", "n", " ", "a", ")", " ",
    "e", "c", "h", "o", " ", "a", ";", ";", " ", "b", ")", " ", "e", "c",
    "h", "o", " ", "b", ";", ";", " ", "e", "s", "a", "c">>
Ex_ls_backslash ==
    <<"l", "s", " ", BSLASH>>
Ex_quoted_semicolons ==
    <<"e", "c", "h", "o", " ", DQUOTE, "a", ";", ";", "b", DQUOTE>>
Ex_done_done ==
    <<"f", "o", "r", " ", "i", " ", "i", "n", " ", "1", " ", "2", " ", "3",
    ";", " ", "d", "o", " ", "e", "c", "h", "o", " ", "$", "i", ";", " ",
    "d", "o", "n", "e", " ", "d", "o", "n", "e">>

\* a ")" that stands before the case statement
Ex_paren_before_case ==
    <<")", " ", "c", "a", "s", "e", " ", "x", " ", "i", "n", " ", "e", "s", "a", "c">>

\* a case statement whose body holds two pipes with nothing between them
Ex_case_empty_pipe ==
    <<"c", "a", "s", "e", " ", "x", " ", "i", "n", " ", "a", ")", " ", "b",
      " ", "|", " ", "|", " ", "c", ";", ";", " ", "e", "s", "a", "c">>

Examples ==
    {Ex_echo_hello, Ex_ls_pipe, Ex_ls_grep, Ex_case_esac, Ex_ls_backslash,
     Ex_quoted_semicolons, Ex_done_done, Ex_paren_before_case,
     Ex_case_empty_pipe}

\* two semicolons before a case statement, and after one
Ex_semicolons_before_case ==
    <<"a", ";", ";", "c", "a", "s", "e", " ", "e", "s", "a", "c">>
Ex_semicolons_after_esac ==
    <<"c", "a", "s", "e", " ", "e", "s", "a", "c", ";", ";", "a">>

\* fi in single quotes between two backtick regions that hold a single quote
Ex_quoted_fi ==
    <<BTICK, SQUOTE, BTICK, SQUOTE, " ", "f", "i", " ", SQUOTE, BTICK, SQUOTE, BTICK>>

Inputs ==
    {NoneCommand, Ex_semicolons_before_case, Ex_semicolons_after_esac, Ex_quoted_fi}
        \cup Examples
        \cup Concats({<<c>> : c \in Chars}, MaxShort)
        \cup Concats(CoreFragments, MaxFrags)

-----------------------------------------------------------------------------
(* The state machine: one call of validate(command)                         *)

\* the history file and the arguments of the calls of save_options so far
saved == <<history, requests>>

\* the state of a workflow and the run of execute_workflow
flows == <<workflow_state, execution>>

\* no WorkflowState has been created and no workflow is being executed
NoWorkflowState == [step_states |-> <<>>, is_complete |-> FALSE]
NoExecution == [pc |-> "none"]

NoWorkflows == workflow_state = NoWorkflowState /\ execution = NoExecution

\* no second call is running
NoPeer == [pc |-> "none", command |-> NoneCommand, idx |-> 1, result |-> Null]

InitWith(inputs) ==
    /\ command \in inputs
    /\ pc = "call"
    /\ idx = 1
    /\ ran = <<>>
    /\ result = Null
    /\ patterns = CompiledPatterns
    /\ calls = <<>>
    /\ tokenized = FALSE
    /\ peer = NoPeer
    /\ history = <<>>
    /\ requests = <<>>
    /\ NoWorkflows

Init == InitWith(Inputs)

\* if command is None: return EMPTY_COMMAND
ValidateNone ==
    /\ pc = "call"
    /\ NoneGuard(command)
    /\ result' = Some(NoneResult)
    /\ pc' = "done"
    /\ UNCHANGED <<command, idx, ran, patterns, calls, tokenized, peer, saved, flows>>

\* if not command or command.isspace(): return EMPTY_COMMAND
ValidateEmpty ==
    /\ pc = "call"
    /\ ~NoneGuard(command)
    /\ EmptyGuard(command)
    /\ result' = Some(EmptyResult)
    /\ pc' = "done"
    /\ UNCHANGED <<command, idx, ran, patterns, calls, tokenized, peer, saved, flows>>

\* the list of checks is built and the loop over it is entered
ValidateChecks ==
    /\ pc = "call"
    /\ ~NoneGuard(command)
    /\ ~EmptyGuard(command)
    /\ pc' = "checks"
    /\ idx' = 1
    /\ UNCHANGED <<command, ran, result, patterns, calls, tokenized, peer, saved, flows>>

\* a check that stores a pattern it has used back into the shared table
PatternsAfter_Recompiled(name, pats) ==
    IF name = "_check_trailing_operators"
    THEN [pats EXCEPT !.TRAILING_REDIRECT = pats.INVALID_OUTPUT_REDIRECT]
    ELSE pats

\* a check that leaves the pattern it has searched with in the slot of another
PatternsAfter_Swapped(name, pats) ==
    IF name = "_check_command_structure_detailed"
    THEN [pats EXCEPT !.CONSECUTIVE_SEMICOLONS = pats.TRIPLE_SEMICOLONS]
    ELSE pats

\* the shared table after a check has run: no check assigns to it
PatternsAfter(name, pats) == pats

\* every run of the quote check calls shlex.split
CallsShlex_Always(name, cmd) == name = "_check_quotes_detailed"

\* the check calls shlex.split(command): the quote check does, when its own
\* scan has returned nothing
CallsShlex(name, cmd) ==
    /\ name = "_check_quotes_detailed"
    /\ LET st == QuoteScan(cmd, Len(cmd))
       IN  /\ st.single_quote_start = Null
           /\ st.double_quote_start = Null
           /\ st.backtick_start = Null

\* for check in checks: there is a next check
LoopGuard == pc = "checks" /\ idx <= Len(checks)

\* one iteration of  for check in checks: the check runs, and a failure returns
RunCheck ==
    /\ LoopGuard
    /\ LET r == RunCheckNamed(checks[idx], command, patterns)
       IN  /\ ran' = Append(ran, checks[idx])
           /\ IF IsException(r) THEN
                 /\ pc' = "raised"
                 /\ UNCHANGED <<idx, result>>
              ELSE IF ~r.is_valid THEN
                 /\ result' = Some(r)
                 /\ pc' = "done"
                 /\ UNCHANGED idx
              ELSE
                 /\ idx' = idx + 1
                 /\ UNCHANGED <<pc, result>>
    /\ patterns' = PatternsAfter(checks[idx], patterns)
    /\ tokenized' = (tokenized \/ CallsShlex(checks[idx], command))
    /\ UNCHANGED <<command, calls, peer, saved, flows>>

\* the loop ends with no failure: return ValidationResult(is_valid=True)
ReturnValid ==
    /\ pc = "checks"
    /\ idx > Len(checks)
    /\ result' = Some(Valid)
    /\ pc' = "done"
    /\ UNCHANGED <<command, idx, ran, patterns, calls, tokenized, peer, saved, flows>>

Next == ValidateNone \/ ValidateEmpty \/ ValidateChecks \/ RunCheck \/ ReturnValid

Spec == Init /\ [][Next]_vars

\* commands made of delimiters, quotes and the words of a case statement
MaxDelimFrags == 4

DelimFragments ==
    {<<c>> : c \in {"(", ")", "{", "}", "[", "]", "$", SQUOTE, BSLASH}}
        \cup {Spaced(Word_case), Spaced(Word_in)}

SpecDelim == InitWith({NoneCommand} \cup Examples \cup Concats(DelimFragments, MaxDelimFrags)) /\ [][Next]_vars

\* commands made of operators and plain characters
MaxOperFrags == 5

OperFragments == {<<c>> : c \in {"a", " ", "|", "&", ";", "<", ">"}}

\* a && b with nothing between two && operators, and the same with ||
Ex_empty_and == <<"a", "&", "&", " ", "&", "&", "a">>
Ex_empty_or == <<"a", "|", "|", " ", "|", "|", "a">>

\* a || b, and a || | b, where the only lone pipe follows the ||
Ex_a_or_b == <<"a", " ", "|", "|", " ", "b">>
Ex_or_then_pipe == <<"a", " ", "|", "|", " ", "|", " ", "b">>

OperInputs ==
    {NoneCommand, Ex_empty_and, Ex_empty_or, Ex_a_or_b, Ex_or_then_pipe}
        \cup Examples
        \cup Concats(OperFragments, MaxOperFrags)

SpecOper == InitWith(OperInputs) /\ [][Next]_vars

\* the commands of Spec and of SpecOper together
SpecBalanced == InitWith(Inputs \cup OperInputs) /\ [][Next]_vars

\* commands made of control-flow keywords and a plain character
MaxKeyFrags == 3

KeywordFragments ==
    {Spaced(w) : w \in {Word_if, Word_fi, Word_for, Word_while, Word_until,
                        Word_select, Word_done, Word_case, Word_esac}}
        \cup {<<"a">>}

\* two loops of different kinds closed by two done, and a done too many
Ex_nested_loops == Spaced(Word_while) \o Spaced(Word_for) \o Spaced(Word_done) \o Word_done
Ex_loops_extra_done ==
    Spaced(Word_for) \o Spaced(Word_until) \o Spaced(Word_done) \o Spaced(Word_done)
        \o Word_done

SpecKeyword ==
    InitWith({NoneCommand, Ex_nested_loops, Ex_loops_extra_done} \cup Examples
                \cup Concats(KeywordFragments, MaxKeyFrags))
        /\ [][Next]_vars

\* commands made of quote characters, backslashes and plain characters
MaxQuoteFrags == 5

QuoteFragments == {<<c>> : c \in {SQUOTE, DQUOTE, BTICK, BSLASH, "a", " "}}

SpecQuote == InitWith({NoneCommand} \cup Examples \cup Concats(QuoteFragments, MaxQuoteFrags)) /\ [][Next]_vars

-----------------------------------------------------------------------------
(* Several calls of validate_command on the module's one validator          *)

\* the calls made before the current one
MaxCalls == 2

CallInputs ==
    {NoneCommand, <<>>, <<"a">>, <<"a", " ", ">">>, <<"a", ";", ";", "a">>,
     <<"=", "a">>, <<"a", "<", " ", "<", "a">>, <<"a", ">", " ", ">", "a">>, <<"'">>}

\* validate_command(command): the call that returned is recorded and the
\* shared validator is entered again
Call ==
    /\ pc = "done"
    /\ Len(calls) < MaxCalls
    /\ calls' = Append(calls, [command |-> command, result |-> result[1]])
    /\ command' \in CallInputs
    /\ pc' = "call"
    /\ idx' = 1
    /\ ran' = <<>>
    /\ result' = Null
    /\ tokenized' = FALSE
    /\ UNCHANGED <<patterns, peer, saved, flows>>

NextCalls == Next \/ Call

SpecCalls == InitWith(CallInputs) /\ [][NextCalls]_vars

-----------------------------------------------------------------------------
(* A second call of validate_command, on another thread, while the first    *)
(* runs: both enter _validator.validate and read the same _patterns          *)

\* the call of the other thread is entered with its own argument
PeerCall(cmd) == [pc |-> "call", command |-> cmd, idx |-> 1, result |-> Null]

\* the frame of the first call, which a step of the second leaves alone
own == <<command, pc, idx, ran, result, calls, tokenized>>

\* if command is None: return EMPTY_COMMAND
PeerValidateNone ==
    /\ peer.pc = "call"
    /\ NoneGuard(peer.command)
    /\ peer' = [peer EXCEPT !.result = Some(NoneResult), !.pc = "done"]
    /\ UNCHANGED <<own, patterns, saved, flows>>

\* if not command or command.isspace(): return EMPTY_COMMAND
PeerValidateEmpty ==
    /\ peer.pc = "call"
    /\ ~NoneGuard(peer.command)
    /\ EmptyGuard(peer.command)
    /\ peer' = [peer EXCEPT !.result = Some(EmptyResult), !.pc = "done"]
    /\ UNCHANGED <<own, patterns, saved, flows>>

\* the list of checks is built and the loop over it is entered
PeerValidateChecks ==
    /\ peer.pc = "call"
    /\ ~NoneGuard(peer.command)
    /\ ~EmptyGuard(peer.command)
    /\ peer' = [peer EXCEPT !.pc = "checks", !.idx = 1]
    /\ UNCHANGED <<own, patterns, saved, flows>>

\* one iteration of  for check in checks  in the second call
PeerRunCheck ==
    /\ peer.pc = "checks"
    /\ peer.idx <= Len(checks)
    /\ LET r == RunCheckNamed(checks[peer.idx], peer.command, patterns)
       IN  peer' = IF IsException(r) THEN [peer EXCEPT !.pc = "raised"]
                   ELSE IF ~r.is_valid
                        THEN [peer EXCEPT !.result = Some(r), !.pc = "done"]
                   ELSE [peer EXCEPT !.idx = peer.idx + 1]
    /\ patterns' = PatternsAfter(checks[peer.idx], patterns)
    /\ UNCHANGED <<own, saved, flows>>

\* the loop ends with no failure: return ValidationResult(is_valid=True)
PeerReturnValid ==
    /\ peer.pc = "checks"
    /\ peer.idx > Len(checks)
    /\ peer' = [peer EXCEPT !.result = Some(Valid), !.pc = "done"]
    /\ UNCHANGED <<own, patterns, saved, flows>>

PeerNext ==
    \/ PeerValidateNone \/ PeerValidateEmpty \/ PeerValidateChecks
    \/ PeerRunCheck \/ PeerReturnValid

NextThreads == Next \/ PeerNext

\* two threads have each called validate_command, neither has taken a step
InitThreads ==
    /\ command \in CallInputs
    /\ pc = "call"
    /\ idx = 1
    /\ ran = <<>>
    /\ result = Null
    /\ patterns = CompiledPatterns
    /\ calls = <<>>
    /\ tokenized = FALSE
    /\ peer \in {PeerCall(cmd) : cmd \in CallInputs}
    /\ history = <<>>
    /\ requests = <<>>
    /\ NoWorkflows

SpecThreads == InitThreads /\ [][NextThreads]_vars

\* validate_command(command) as a function: the result the state machine returns
RECURSIVE ValidateFrom(_, _, _)
ValidateFrom(cmd, pats, k) ==
    IF k > Len(checks) THEN Valid
    ELSE LET r == RunCheckNamed(checks[k], cmd, pats)
         IN  IF IsException(r) \/ ~r.is_valid THEN r ELSE ValidateFrom(cmd, pats, k + 1)

validate(cmd, pats) ==
    IF NoneGuard(cmd) THEN NoneResult
    ELSE IF EmptyGuard(cmd) THEN EmptyResult
    ELSE ValidateFrom(cmd, pats, 1)

-----------------------------------------------------------------------------
(* CommandHistory.save_options                                              *)

\* self.max_entries
max_entries == 100

Command(cmd, explanation) == [command |-> cmd, short_explanation |-> explanation]

OptionsResponse(commands, valid, explanation) ==
    [commands |-> commands, is_valid |-> valid,
     explanation_if_not_valid |-> explanation]

CommandHistoryEntry(query, response) == [query |-> query, response |-> response]

\* the options as they are passed on, with no command taken out
filter_valid_commands_Unfiltered(options, pats) == options

\* for cmd in options.commands: keep cmd when validate_command(cmd.command)
\* is valid; the other two fields are copied
filter_valid_commands(options, pats) ==
    OptionsResponse(
        SelectSeq(options.commands, LAMBDA cmd : validate(cmd.command, pats).is_valid),
        options.is_valid, options.explanation_if_not_valid)

\* the line is appended, and the file is cut to its last max_entries lines
write_to_history_file(lines, new_entry) ==
    LET appended == Append(lines, new_entry)
    IN  IF Len(appended) > max_entries
        THEN SubSeq(appended, Len(appended) - max_entries + 1, Len(appended))
        ELSE appended

\* the file after save_options(query, options)
save_options(lines, query, options, pats) ==
    IF options = Null THEN lines
    ELSE LET filtered_options == filter_valid_commands(options[1], pats)
         IN  IF filtered_options.commands = <<>> /\ options[1].is_valid THEN lines
             ELSE write_to_history_file(lines,
                      CommandHistoryEntry(query, filtered_options))

\* commands per response, and calls of save_options
MaxOptions == 3
MaxSaves == 1

HistoryCommands ==
    {Command(<<"a">>, "one"), Command(<<"l", "s">>, "two"),
     Command(<<"a", "|">>, "three")}

\* the sequences of at most n elements of S
RECURSIVE SeqsUpTo(_, _)
SeqsUpTo(S, n) ==
    IF n = 0 THEN {<<>>}
    ELSE LET shorter == SeqsUpTo(S, n - 1)
         IN  shorter \cup {Append(w, x) : w \in shorter, x \in S}

OptionInputs ==
    {Null} \cup
    {Some(OptionsResponse(cs, TRUE, Null)) : cs \in SeqsUpTo(HistoryCommands, MaxOptions)}
    \cup
    {Some(OptionsResponse(cs, FALSE, explanation)) :
        cs \in SeqsUpTo(HistoryCommands, MaxOptions),
        explanation \in {Null, Some("no command fits")}}

\* command_history.save_options(words, response)
SaveOptions ==
    /\ Len(requests) < MaxSaves
    /\ \E options \in OptionInputs :
          /\ requests' = Append(requests, options)
          /\ history' = save_options(history, "query", options, patterns)
    /\ UNCHANGED <<own, patterns, peer, flows>>

\* no call of validate is running; the history file is empty
InitHistory ==
    /\ command = NoneCommand
    /\ pc = "idle"
    /\ idx = 1
    /\ ran = <<>>
    /\ result = Null
    /\ patterns = CompiledPatterns
    /\ calls = <<>>
    /\ tokenized = FALSE
    /\ peer = NoPeer
    /\ history = <<>>
    /\ requests = <<>>
    /\ NoWorkflows

SpecHistory == InitHistory /\ [][SaveOptions]_vars

-----------------------------------------------------------------------------
(* WorkflowState (llms/types.py): the status of each step of a workflow     *)

StepStatus == {"PENDING", "COMPLETED", "FAILED", "SKIPPED"}

WorkflowStepState(step_number) ==
    [step_number |-> step_number, status |-> "PENDING", exit_code |-> Null]

\* a new state for a workflow of n steps, numbered from 1
create_workflow_state(n) ==
    [step_states |-> [j \in 1..n |-> WorkflowStepState(j)], is_complete |-> FALSE]

\* the places of the step states that carry the step number
Matching(state, step_number) ==
    {j \in 1..Len(state.step_states) : state.step_states[j].step_number = step_number}

\* for state in self.step_states: if state.step_number == step_number: ... break
SetStatus(state, step_number, status, exit_code) ==
    IF Matching(state, step_number) = {} THEN state
    ELSE LET j == SetMin(Matching(state, step_number))
         IN  [state EXCEPT !.step_states[j].status = status,
                           !.step_states[j].exit_code = exit_code]

check_completion(state) ==
    [state EXCEPT !.is_complete =
        \A j \in 1..Len(state.step_states) :
            state.step_states[j].status \in {"COMPLETED", "SKIPPED"}]

mark_step_completed(state, step_number, exit_code) ==
    check_completion(SetStatus(state, step_number, "COMPLETED", Some(exit_code)))

mark_step_failed(state, step_number, exit_code) ==
    SetStatus(state, step_number, "FAILED", Some(exit_code))

\* the exit code of the step is left as it was
mark_step_skipped(state, step_number) ==
    LET found == Matching(state, step_number)
        kept == IF found = {} THEN Null
                ELSE state.step_states[SetMin(found)].exit_code
    IN  check_completion(SetStatus(state, step_number, "SKIPPED", kept))

\* the longest workflow, in steps
MaxSteps == 3

\* the exit codes of a step's command: success and failure
ExitCodes == {0, 1}

\* the step numbers passed to the three methods: those of the workflow and
\* one that no step carries
StepNumbers == 1..(Len(workflow_state.step_states) + 1)

MarkStepCompleted ==
    /\ workflow_state # NoWorkflowState
    /\ \E step_number \in StepNumbers, exit_code \in ExitCodes :
          workflow_state' = mark_step_completed(workflow_state, step_number, exit_code)
    /\ UNCHANGED <<own, patterns, peer, saved, execution>>

MarkStepFailed ==
    /\ workflow_state # NoWorkflowState
    /\ \E step_number \in StepNumbers, exit_code \in ExitCodes :
          workflow_state' = mark_step_failed(workflow_state, step_number, exit_code)
    /\ UNCHANGED <<own, patterns, peer, saved, execution>>

MarkStepSkipped ==
    /\ workflow_state # NoWorkflowState
    /\ \E step_number \in StepNumbers :
          workflow_state' = mark_step_skipped(workflow_state, step_number)
    /\ UNCHANGED <<own, patterns, peer, saved, execution>>

NextWorkflowState == MarkStepCompleted \/ MarkStepFailed \/ MarkStepSkipped

\* a WorkflowState as create_workflow_state builds it; no call of validate
\* is running
InitWorkflowState ==
    /\ command = NoneCommand
    /\ pc = "idle"
    /\ idx = 1
    /\ ran = <<>>
    /\ result = Null
    /\ patterns = CompiledPatterns
    /\ calls = <<>>
    /\ tokenized = FALSE
    /\ peer = NoPeer
    /\ history = <<>>
    /\ requests = <<>>
    /\ workflow_state \in {create_workflow_state(n) : n \in 1..MaxSteps}
    /\ execution = NoExecution

SpecWorkflowState == InitWorkflowState /\ [][NextWorkflowState]_vars

-----------------------------------------------------------------------------
(* execute_workflow (workflow_executor.py): one action per branch of the    *)
(* loop over the steps                                                      *)

\* a step of a workflow: the two fields execute_workflow reads
WorkflowStep(step_number, is_dangerous, depends_on_previous) ==
    [step_number |-> step_number, is_dangerous |-> is_dangerous,
     depends_on_previous |-> depends_on_previous]

\* the workflows of n steps, numbered from 1
Workflows(n) ==
    {steps \in [1..n -> [step_number : 1..n, is_dangerous : BOOLEAN,
                         depends_on_previous : BOOLEAN]] :
        \A j \in 1..n : steps[j].step_number = j}

\* an entry of results: (step, success, output)
StepResult(step, success, output) ==
    [step |-> step, success |-> success, output |-> output]

\* the locals at the start of execute_workflow(workflow); launched is the
\* list of the steps handed to run_command, stopped the break of the loop
execute_workflow(steps) ==
    [pc |-> "loop", steps |-> steps, i |-> 0, results |-> <<>>,
     launched |-> <<>>, stopped |-> FALSE]

\* every later step is taken to follow a success
prev_success_Always(results) == TRUE

\* results[-1][1] if results else True
prev_success(results) ==
    IF results # <<>> THEN results[Len(results)].success ELSE TRUE

InLoop == execution.pc = "loop" /\ execution.i < Len(execution.steps)

\* enumerate(workflow.steps): the step of this iteration
CurrentStep == execution.steps[execution.i + 1]

SkipsForDependency ==
    /\ CurrentStep.depends_on_previous
    /\ execution.i > 0
    /\ ~prev_success(execution.results)

\* the iteration ends with continue: the result is recorded, nothing is run
Continue(output) ==
    execution' = [execution EXCEPT
        !.results = Append(@, StepResult(CurrentStep, FALSE, output)),
        !.i = @ + 1]

SkipDependentStep ==
    /\ InLoop
    /\ SkipsForDependency
    /\ Continue("Skipped due to dependency failure")
    /\ UNCHANGED <<own, patterns, peer, saved, workflow_state>>

\* the user declines a dangerous step, or declines to run the step
SkipStepByUser ==
    /\ InLoop
    /\ ~SkipsForDependency
    /\ \E at_warning \in BOOLEAN :
          /\ at_warning => CurrentStep.is_dangerous
          /\ Continue("Skipped by user")
    /\ UNCHANGED <<own, patterns, peer, saved, workflow_state>>

\* the user confirms, run_command returns 0
RunStepSuccess ==
    /\ InLoop
    /\ ~SkipsForDependency
    /\ execution' = [execution EXCEPT
          !.launched = Append(@, CurrentStep.step_number),
          !.results = Append(@, StepResult(CurrentStep, TRUE, "Success")),
          !.i = @ + 1]
    /\ UNCHANGED <<own, patterns, peer, saved, workflow_state>>

\* the user confirms, run_command returns another code or raises; before the
\* last step the user is asked whether to continue, and a no breaks the loop
RunStepFailure ==
    /\ InLoop
    /\ ~SkipsForDependency
    /\ \E output \in {"Failed with exit code 1", "str(e)"}, go_on \in BOOLEAN :
          LET asked == execution.i < Len(execution.steps) - 1
              recorded == [execution EXCEPT
                  !.launched = Append(@, CurrentStep.step_number),
                  !.results = Append(@, StepResult(CurrentStep, FALSE, output))]
          IN  /\ ~asked => go_on
              /\ execution' = IF asked /\ ~go_on
                              THEN [recorded EXCEPT !.stopped = TRUE, !.pc = "summary"]
                              ELSE [recorded EXCEPT !.i = @ + 1]
    /\ UNCHANGED <<own, patterns, peer, saved, workflow_state>>

\* the loop is over: display_execution_summary(workflow, results)
DisplaySummary ==
    /\ \/ execution.pc = "loop" /\ execution.i = Len(execution.steps)
       \/ execution.pc = "summary"
    /\ execution' = [execution EXCEPT !.pc = "done"]
    /\ UNCHANGED <<own, patterns, peer, saved, workflow_state>>

NextExecution ==
    SkipDependentStep \/ SkipStepByUser \/ RunStepSuccess \/ RunStepFailure
        \/ DisplaySummary

\* execute_workflow is called on a workflow; no call of validate is running
InitExecution ==
    /\ command = NoneCommand
    /\ pc = "idle"
    /\ idx = 1
    /\ ran = <<>>
    /\ result = Null
    /\ patterns = CompiledPatterns
    /\ calls = <<>>
    /\ tokenized = FALSE
    /\ peer = NoPeer
    /\ history = <<>>
    /\ requests = <<>>
    /\ workflow_state = NoWorkflowState
    /\ execution \in {execute_workflow(steps) :
                        steps \in UNION {Workflows(n) : n \in 1..MaxSteps}}

SpecExecution == InitExecution /\ [][NextExecution]_vars

-----------------------------------------------------------------------------
(* Properties of validate                                                   *)

Returned == pc = "done"
Res == result[1]

\* the order of the checks the documentation gives
DocumentedOrder ==
    <<"_check_quotes_detailed", "_check_trailing_operators",
      "_check_leading_operators", "_check_balanced_delimiters_detailed",
      "_check_pipe_chain_integrity", "_check_logical_operator_chains",
      "_check_redirections_detailed", "_check_command_structure_detailed",
      "_check_control_flow_keywords">>

IsPrefix(s, t) == Len(s) <= Len(t) /\ s = SubSeq(t, 1, Len(s))

\* the check of that name, run alone on the command, finds a defect
Fails(name, cmd) ==
    LET r == RunCheckNamed(name, cmd, CompiledPatterns)
    IN  ~IsException(r) /\ ~r.is_valid

\* the places in the documented order of the checks that fail on the command
FailingChecks(cmd) == {k \in 1..Len(DocumentedOrder) : Fails(DocumentedOrder[k], cmd)}

\* C1: a returned result that is valid has no error code, message, position
\* or suggestion; a returned result that is invalid has an error code and a
\* message.
C1_ResultShape ==
    Returned =>
        /\ Res.is_valid =>
              /\ Res.error_code = Null
              /\ Res.error_message = Null
              /\ Res.error_position = Null
              /\ Res.suggestion = Null
        /\ ~Res.is_valid =>
              /\ Res.error_code # Null
              /\ Res.error_message # Null

\* an invalid result returned without a position (a global defect)
C1_Witness ==
    /\ Returned
    /\ ~Res.is_valid
    /\ Res.error_code = Some("PARSE_ERROR")
    /\ Res.error_position = Null

\* C2: the checks run in the documented order and stop at the first one that
\* fails: the checks run so far are always a prefix of the documented order;
\* an invalid result (of a non-empty command) is the result of the earliest
\* failing check and that check is the last one run; a valid result is
\* returned only after all nine checks ran and none failed.
C2_FixedOrderFirstFailure ==
    /\ IsPrefix(ran, DocumentedOrder)
    /\ (Returned /\ ran # <<>>) =>
          LET failing == FailingChecks(command)
          IN  IF Res.is_valid
              THEN failing = {} /\ ran = DocumentedOrder
              ELSE /\ failing # {}
                   /\ Len(ran) = SetMin(failing)
                   /\ Res = RunCheckNamed(DocumentedOrder[SetMin(failing)], command,
                                          CompiledPatterns)

\* two defects: the reported one (a trailing pipe) lies after the offset of an
\* unclosed delimiter, which a later check would have reported
C2_Witness ==
    /\ Returned
    /\ Res.error_code = Some("TRAILING_PIPE")
    /\ Fails("_check_balanced_delimiters_detailed", command)
    /\ LET later == check_balanced_delimiters_detailed(command, CompiledPatterns)
       IN  later.error_position[1] < Res.error_position[1]

\* the delimiter loop advances its index on every iteration that does not return
RECURSIVE DelimAdvances(_, _, _)
DelimAdvances(cmd, st, has_case) ==
    IF st.i >= Len(cmd) \/ st.ret # Null THEN TRUE
    ELSE LET next == DelimStep(cmd, st, has_case)
         IN  /\ (next.i > st.i \/ next.ret # Null)
             /\ DelimAdvances(cmd, next, has_case)

\* the splitter loop advances its index on every iteration
RECURSIVE SplitAdvances(_, _, _, _)
SplitAdvances(cmd, operator, exclude_double, st) ==
    IF st.i >= Len(cmd) THEN TRUE
    ELSE LET next == SplitStep(cmd, operator, exclude_double, st)
         IN  next.i > st.i /\ SplitAdvances(cmd, operator, exclude_double, next)

LoopsAdvance(cmd) ==
    /\ DelimAdvances(cmd, DelimInit, TRUE)
    /\ DelimAdvances(cmd, DelimInit, FALSE)
    /\ SplitAdvances(cmd, <<"|">>, TRUE, SplitInit)
    /\ SplitAdvances(cmd, <<"&", "&">>, FALSE, SplitInit)
    /\ SplitAdvances(cmd, <<"|", "|">>, FALSE, SplitInit)

IsValidationResult(r) ==
    /\ DOMAIN r = {"is_valid", "error_message", "error_code", "error_position",
                   "suggestion"}
    /\ r.is_valid \in BOOLEAN
    /\ r.error_code = Null \/ r.error_code[1] \in ValidationErrorCode

\* C3: validate never raises and always returns: no check leaves by an
\* exception, the call can take a step until it has returned, what it returns
\* is a ValidationResult, and the while loops of the scanners advance their
\* index on each iteration.
C3_TotalNoException ==
    /\ pc # "raised"
    /\ \/ Returned
       \/ ENABLED ValidateNone \/ ENABLED ValidateEmpty \/ ENABLED ValidateChecks
       \/ LoopGuard \/ ENABLED ReturnValid
    /\ Returned => (result # Null /\ IsValidationResult(Res))
    /\ (pc = "call" /\ command # NoneCommand) => LoopsAdvance(command)

\* an index lookup that computes an error position was made, and found its character
C3_Witness ==
    /\ Returned
    /\ Res.error_code = Some("LEADING_PIPE")
    /\ Res.error_position = Some(1)

\* None, the empty string, or a string of whitespace only
Blank(cmd) ==
    \/ cmd = NoneCommand
    \/ \A k \in 1..Len(cmd) : cmd[k] \in Whitespace

\* C4: for None, the empty string and a whitespace-only string validate
\* returns EMPTY_COMMAND without running any of the nine checks.
C4_EmptyCommand ==
    (Returned /\ Blank(command)) =>
        /\ ~Res.is_valid
        /\ Res.error_code = Some("EMPTY_COMMAND")
        /\ ran = <<>>

\* a whitespace-only command was answered
C4_Witness ==
    /\ Returned
    /\ command = <<" ", "\t">>
    /\ Res.error_code = Some("EMPTY_COMMAND")

\* C5: validate is deterministic: a call returns what every earlier call
\* with the same string returned, whatever calls were made in between, and
\* the table of patterns the calls read is never changed.
C5_Deterministic ==
    /\ patterns = CompiledPatterns
    /\ Returned =>
          \A k \in 1..Len(calls) :
              calls[k].command = command => calls[k].result = Res

\* the same string validated again after a call with another string, with a
\* result that was read from the table of patterns
C5_Witness ==
    /\ Returned
    /\ Len(calls) = 2
    /\ calls[1].command = command
    /\ calls[2].command # command
    /\ Res.error_code = Some("REDIRECT_WITHOUT_TARGET")
    /\ calls[2].result.error_code = Some("CONSECUTIVE_SEMICOLONS")

-----------------------------------------------------------------------------
(* Reference reading of delimiters: which characters are delimiters outside *)
(* quotes, and which opener each closer closes, stated without stacks       *)

\* the quoting state before the character at offset k
RECURSIVE RefLex(_, _)
RefLex(cmd, k) ==
    IF k = 0 THEN [sq |-> FALSE, dq |-> FALSE, esc |-> FALSE]
    ELSE LET q == RefLex(cmd, k - 1)
             c == At(cmd, k - 1)
         IN  IF q.esc THEN [q EXCEPT !.esc = FALSE]
             ELSE IF c = BSLASH /\ ~q.sq THEN [q EXCEPT !.esc = TRUE]
             ELSE IF c = SQUOTE /\ ~q.dq THEN [q EXCEPT !.sq = ~q.sq]
             ELSE IF c = DQUOTE /\ ~q.sq THEN [q EXCEPT !.dq = ~q.dq]
             ELSE q

\* the character at offset k is outside quotes and not escaped
Active(cmd, k) ==
    LET q == RefLex(cmd, k) IN ~q.sq /\ ~q.dq /\ ~q.esc

\* the delimiter token that starts at offset k: "$(", one of ( ) { } [ ], or ""
TokenAt(cmd, k) ==
    LET c == At(cmd, k)
    IN  IF ~Active(cmd, k) THEN ""
        ELSE IF c = "$" /\ k + 1 < Len(cmd) /\ At(cmd, k + 1) = "(" THEN "$("
        ELSE IF c = "(" /\ k > 0 /\ At(cmd, k - 1) = "$" /\ Active(cmd, k - 1) THEN ""
        ELSE IF c \in {"(", ")", "{", "}", "[", "]"} THEN c
        ELSE ""

\* the tokens of the command, by offset (index k + 1 holds the token at k)
Tokens(cmd) == [k \in 1..Len(cmd) |-> TokenAt(cmd, k - 1)]

OpenersOf(closer) ==
    CASE closer = ")" -> {"(", "$("}
      [] closer = "}" -> {"{"}
      [] closer = "]" -> {"["}

CloserOf(opener) ==
    CASE opener \in {"(", "$("} -> ")"
      [] opener = "{" -> "}"
      [] opener = "[" -> "]"

Openers == {"(", "$(", "{", "["}
Closers == {")", "}", "]"}

\* the number of offsets in a..b-1 that hold a token of the set
CountIn(toks, a, b, set) == Cardinality({k \in a..(b - 1) : toks[k + 1] \in set})

\* the closer at offset k has no opener of its family left to close
UnmatchedCloser(toks, k) ==
    /\ toks[k + 1] \in Closers
    /\ CountIn(toks, 0, k, OpenersOf(toks[k + 1])) <= CountIn(toks, 0, k, {toks[k + 1]})

\* the opener at offset p is never closed: no later closer of its family
\* finds it the nearest opener still open
NeverClosed(toks, p) ==
    /\ toks[p + 1] \in Openers
    /\ \A q \in (p + 1)..(Len(toks) - 1) :
          CountIn(toks, p + 1, q + 1, {CloserOf(toks[p + 1])})
              <= CountIn(toks, p + 1, q + 1, OpenersOf(CloserOf(toks[p + 1])))

UnmatchedCode(closer) ==
    CASE closer = ")" -> "UNMATCHED_PARENTHESIS"
      [] closer = "}" -> "UNMATCHED_BRACE"
      [] closer = "]" -> "UNMATCHED_BRACKET"

UnclosedCode(opener) ==
    CASE opener = "(" -> "UNCLOSED_PARENTHESIS"
      [] opener = "$(" -> "UNCLOSED_COMMAND_SUBSTITUTION"
      [] opener = "{" -> "UNCLOSED_BRACE"
      [] opener = "[" -> "UNCLOSED_BRACKET"

\* the delimiter check has run in this call / has run and returned its failure
DelimiterCheckRan == Len(ran) >= 4
DelimiterCheckFailed == Returned /\ Len(ran) = 4

\* the offsets of the openers that are never closed
NeverClosedOpeners(toks) == {p \in 0..(Len(toks) - 1) : NeverClosed(toks, p)}

\* the offsets of the closers that have nothing to close
UnmatchedClosers(toks) == {k \in 0..(Len(toks) - 1) : UnmatchedCloser(toks, k)}

\* the offsets a stack holds
Offsets(stack) == {stack[j] : j \in 1..Len(stack)}

Increasing(stack) == \A j \in 1..(Len(stack) - 1) : stack[j] < stack[j + 1]

\* C7: when exactly one opening delimiter is never closed, no closer is
\* unmatched and every other check passes, validate returns the UNCLOSED_*
\* code of that opener with error_position at its offset (for "$(" the offset
\* of the "$").
C7_OnlyDefect ==
    /\ command # NoneCommand
    /\ Cardinality(NeverClosedOpeners(Tokens(command))) = 1
    /\ UnmatchedClosers(Tokens(command)) = {}
    /\ \A k \in 1..Len(checks) :
          checks[k] # "_check_balanced_delimiters_detailed" => ~Fails(checks[k], command)

C7_SingleDefectLocalization ==
    (Returned /\ C7_OnlyDefect) =>
        LET toks == Tokens(command)
            p == CHOOSE p \in NeverClosedOpeners(toks) : TRUE
        IN  /\ ~Res.is_valid
            /\ Res.error_code = Some(UnclosedCode(toks[p + 1]))
            /\ Res.error_position = Some(p)

C7_Witness ==
    /\ Returned
    /\ C7_OnlyDefect
    /\ Res.error_code = Some("UNCLOSED_COMMAND_SUBSTITUTION")
    /\ Res.error_position = Some(2)
    /\ TokenAt(command, 0) = "("

\* C8: when the quote scan ends with a quote open, validate returns the
\* UNCLOSED_* code of a kind that is open, and error_position is the offset of
\* the quote character that opened it and was never closed; for echo 'hello
\* that is UNCLOSED_SINGLE_QUOTE at offset 5.
QuoteKinds == {"single", "double", "backtick"}

StartOf(st, kind) ==
    CASE kind = "single" -> st.single_quote_start
      [] kind = "double" -> st.double_quote_start
      [] kind = "backtick" -> st.backtick_start

QuoteChar(kind) ==
    CASE kind = "single" -> SQUOTE
      [] kind = "double" -> DQUOTE
      [] kind = "backtick" -> BTICK

UnclosedQuoteCode(kind) ==
    CASE kind = "single" -> "UNCLOSED_SINGLE_QUOTE"
      [] kind = "double" -> "UNCLOSED_DOUBLE_QUOTE"
      [] kind = "backtick" -> "UNCLOSED_BACKTICK"

OpenKinds(cmd) == {kind \in QuoteKinds : StartOf(QuoteScan(cmd, Len(cmd)), kind) # Null}

\* the quote of that kind is opened by the character at offset p and stays
\* open from there to the end of the command
OpenedAt(cmd, kind, p) ==
    /\ p \in 0..(Len(cmd) - 1)
    /\ At(cmd, p) = QuoteChar(kind)
    /\ StartOf(QuoteScan(cmd, p), kind) = Null
    /\ \A n \in (p + 1)..Len(cmd) : StartOf(QuoteScan(cmd, n), kind) # Null

C8_UnclosedQuote ==
    /\ (Returned /\ command # NoneCommand /\ OpenKinds(command) # {}) =>
          /\ ~Res.is_valid
          /\ ran = <<"_check_quotes_detailed">>
          /\ \E kind \in OpenKinds(command) :
                /\ Res.error_code = Some(UnclosedQuoteCode(kind))
                /\ Res.error_position # Null
                /\ OpenedAt(command, kind, Res.error_position[1])
    /\ (Returned /\ command = Ex_echo_hello) =>
          /\ Res.error_code = Some("UNCLOSED_SINGLE_QUOTE")
          /\ Res.error_position = Some(5)

C8_Witness ==
    /\ Returned
    /\ command # NoneCommand
    /\ OpenKinds(command) = {"double", "backtick"}
    /\ Res.error_code = Some("UNCLOSED_DOUBLE_QUOTE")
    /\ Res.error_position = Some(2)

\* C9: when the delimiter check runs, the first closer that has no opener of
\* its family open (for ")" only when the command does not hold the words
\* case and in) makes the check fail with the UNMATCHED_* code of that closer
\* at its offset; and the stacks hold, in order, the offsets of the openers of
\* their own family that no closer has closed.
CaseExceptionApplies(cmd) == HasCaseIn(cmd)

FailingClosers(cmd) ==
    {k \in UnmatchedClosers(Tokens(cmd)) :
        Tokens(cmd)[k + 1] = ")" => ~CaseExceptionApplies(cmd)}

\* the stack holds the offsets of the never-closed openers among the tokens
\* read so far
StackHolds(stack, read, openers) ==
    /\ Increasing(stack)
    /\ Offsets(stack) = {p \in NeverClosedOpeners(read) : read[p + 1] \in openers}

C9_UnmatchedCloser ==
    (DelimiterCheckRan /\ command # NoneCommand) =>
        LET st == DelimLoop(command, DelimInit, HasCaseIn(command))
            read == SubSeq(Tokens(command), 1, Min(st.i, Len(command)))
            bad == FailingClosers(command)
        IN  /\ bad # {} =>
                /\ DelimiterCheckFailed
                /\ Res.error_code = Some(UnmatchedCode(Tokens(command)[SetMin(bad) + 1]))
                /\ Res.error_position = Some(SetMin(bad))
                /\ st.i = SetMin(bad)
            /\ StackHolds(st.paren_stack, read, {"("})
            /\ StackHolds(st.subshell_stack, read, {"$("})
            /\ StackHolds(st.brace_stack, read, {"{"})
            /\ StackHolds(st.bracket_stack, read, {"["})

C9_Witness ==
    /\ DelimiterCheckFailed
    /\ Res.error_code = Some("UNMATCHED_BRACE")
    /\ Res.error_position = Some(3)
    /\ DelimLoop(command, DelimInit, HasCaseIn(command)).bracket_stack = <<0>>
    /\ TokenAt(command, 2) = ")"

\* C10: when the delimiter scan ends with openers still open, error_position
\* is the smallest offset among all the openers still open, of whatever
\* family.
C10_OldestAcrossFamilies ==
    (DelimiterCheckRan /\ command # NoneCommand) =>
        LET st == DelimLoop(command, DelimInit, HasCaseIn(command))
            open == Offsets(st.paren_stack) \cup Offsets(st.subshell_stack)
                        \cup Offsets(st.brace_stack) \cup Offsets(st.bracket_stack)
        IN  (st.ret = Null /\ open # {}) =>
                /\ DelimiterCheckFailed
                /\ Res.error_position = Some(SetMin(open))

-----------------------------------------------------------------------------
(* Balanced input                                                           *)

LastChar(t) == t[Len(t)]

\* the command ends in a pipe, &&, a redirection with nothing after it, a
\* backslash, or is a semicolon alone
DanglingTail(cmd) ==
    LET t == rstrip(cmd)
    IN  /\ t # <<>>
        /\ \/ LastChar(t) \in {"|", "<", ">", BSLASH}
           \/ endswith(t, <<"&", "&">>)
           \/ endswith(t, <<"<", "&">>)
           \/ endswith(t, <<">", "&">>)
           \/ t = <<";">>

\* the command starts with a pipe, ||, && or a semicolon
DanglingHead(cmd) ==
    LET t == lstrip(cmd)
    IN  /\ t # <<>>
        /\ \/ t[1] \in {"|", ";"}
           \/ startswith(t, <<"&", "&">>)

\* how many of the first n words are in the set
CountWords(words, n, set) == Cardinality({j \in 1..n : words[j] \in set})

\* every closing word closes an opening word before it, and none stays open
Nested(words, opening, closing) ==
    /\ \A n \in 1..Len(words) :
          CountWords(words, n, closing) <= CountWords(words, n, opening)
    /\ CountWords(words, Len(words), closing) = CountWords(words, Len(words), opening)

BalancedKeywords(cmd) ==
    LET words == extract_unquoted_words(cmd)
    IN  /\ Nested(words, {Word_if}, {Word_fi})
        /\ Nested(words, {Word_for, Word_while, Word_until, Word_select}, {Word_done})
        /\ Nested(words, {Word_case}, {Word_esac})

\* balanced quotes, balanced delimiters, no dangling operator at either end,
\* balanced keywords
Balanced(cmd) ==
    /\ OpenKinds(cmd) = {}
    /\ NeverClosedOpeners(Tokens(cmd)) = {}
    /\ UnmatchedClosers(Tokens(cmd)) = {}
    /\ ~DanglingHead(cmd)
    /\ ~DanglingTail(cmd)
    /\ BalancedKeywords(cmd)

\* the checks of segments, redirection pairs and structure find nothing, and
\* the second tokenizer reads the quoting as the quote scan does
WellFormed(cmd) ==
    /\ shlex_split_error(cmd) = Null
    /\ ~Fails("_check_pipe_chain_integrity", cmd)
    /\ ~Fails("_check_logical_operator_chains", cmd)
    /\ ~Fails("_check_redirections_detailed", cmd)
    /\ ~Fails("_check_command_structure_detailed", cmd)

-----------------------------------------------------------------------------
(* The case-statement exception                                             *)

\* the unquoted words of the command include both case and in
HoldsCaseAndIn(cmd) ==
    /\ Contains(extract_unquoted_words(cmd), Word_case)
    /\ Contains(extract_unquoted_words(cmd), Word_in)

\* a ")" at offset k that no open "(" or "$(" consumes
StrayParen(cmd, k) == Tokens(cmd)[k + 1] = ")" /\ UnmatchedCloser(Tokens(cmd), k)

\* C11: in a command whose unquoted words include case and in, validate
\* never returns UNMATCHED_PARENTHESIS, and the delimiter check reads past a
\* ")" that nothing consumes; the case statement of the documentation passes
\* all nine checks and is valid.
C11_CaseParenAccepted ==
    /\ (Returned /\ ~Blank(command) /\ HoldsCaseAndIn(command)) =>
          Res.error_code # Some("UNMATCHED_PARENTHESIS")
    /\ (DelimiterCheckRan /\ ~Blank(command) /\ HoldsCaseAndIn(command)) =>
          LET st == DelimLoop(command, DelimInit, HasCaseIn(command))
          IN  \A k \in 0..(Len(command) - 1) :
                  (Tokens(command)[k + 1] = ")" /\ st.ret # Null) => st.i # k
    /\ (Returned /\ command = Ex_case_esac) => (Res.is_valid /\ ran = checks)

C11_Witness ==
    /\ Returned
    /\ command = Ex_case_esac
    /\ Res.is_valid
    /\ StrayParen(command, 12)
    /\ Len(ran) = 9

\* the word case stands before the word in
CaseThenIn(words) ==
    \E i \in 1..Len(words) : \E j \in (i + 1)..Len(words) :
        words[i] = Word_case /\ words[j] = Word_in

\* the offsets of the ")" that nothing consumes
StrayParens(cmd) == {k \in 0..(Len(cmd) - 1) : StrayParen(cmd, k)}

\* C12: the first ")" that nothing consumes, when the unquoted words before
\* it do not hold case followed by in (and no "}" or "]" before it is
\* unmatched), is reported as UNMATCHED_PARENTHESIS at its offset.
C12_ExceptionOnlyAfterIn ==
    (DelimiterCheckRan /\ ~Blank(command) /\ StrayParens(command) # {}) =>
        LET k == SetMin(StrayParens(command))
            before == extract_unquoted_words(SubSeq(command, 1, k))
        IN  (/\ ~CaseThenIn(before)
             /\ \A j \in UnmatchedClosers(Tokens(command)) : j >= k) =>
                /\ DelimiterCheckFailed
                /\ Res.error_code = Some("UNMATCHED_PARENTHESIS")
                /\ Res.error_position = Some(k)

-----------------------------------------------------------------------------
(* Operators at the ends of the command                                     *)

QuoteCheckPasses(cmd) == ~Fails("_check_quotes_detailed", cmd)
TrailingCheckPasses(cmd) == ~Fails("_check_trailing_operators", cmd)

\* the last two characters of t are both ch
EndsInTwo(t, ch) == Len(t) >= 2 /\ t[Len(t)] = ch /\ t[Len(t) - 1] = ch

\* the last character of t is ch and the one before it is not
EndsInOne(t, ch) == Len(t) >= 1 /\ t[Len(t)] = ch /\ ~EndsInTwo(t, ch)

\* C13: for a command that passes the quote check, a right-trimmed form that
\* ends in one "|" gives TRAILING_PIPE at that "|", one that ends in "&&"
\* gives TRAILING_AND and one that ends in "||" gives TRAILING_OR, each at the
\* first character of the operator; ls | gives TRAILING_PIPE.
C13_TrailingOperator ==
    /\ (Returned /\ ~Blank(command) /\ QuoteCheckPasses(command)) =>
          LET t == rstrip(command)
          IN  /\ EndsInOne(t, "|") =>
                    /\ Res.error_code = Some("TRAILING_PIPE")
                    /\ Res.error_position = Some(Len(t) - 1)
              /\ EndsInTwo(t, "&") =>
                    /\ Res.error_code = Some("TRAILING_AND")
                    /\ Res.error_position = Some(Len(t) - 2)
              /\ EndsInTwo(t, "|") =>
                    /\ Res.error_code = Some("TRAILING_OR")
                    /\ Res.error_position = Some(Len(t) - 2)
    /\ (Returned /\ command = Ex_ls_pipe) =>
          (~Res.is_valid /\ Res.error_code = Some("TRAILING_PIPE"))

C13_Witness ==
    /\ Returned
    /\ ~Blank(command)
    /\ QuoteCheckPasses(command)
    /\ Len(rstrip(command)) < Len(command)
    /\ EndsInTwo(rstrip(command), "|")
    /\ Res.error_code = Some("TRAILING_OR")
    /\ Res.error_position = Some(1)

\* C15: for a command that passes the quote and trailing-operator checks, a
\* left-trimmed form that starts with "|" (not "||"), "&&", "||" or ";" gives
\* LEADING_PIPE, LEADING_AND, LEADING_OR or LEADING_SEMICOLON, with
\* error_position equal to the number of leading whitespace characters.
C15_LeadingOperator ==
    (Returned /\ ~Blank(command) /\ QuoteCheckPasses(command)
        /\ TrailingCheckPasses(command)) =>
        LET t == lstrip(command)
            lead == Len(command) - Len(t)
            code == IF startswith(t, <<"|", "|">>) THEN Some("LEADING_OR")
                    ELSE IF startswith(t, <<"|">>) THEN Some("LEADING_PIPE")
                    ELSE IF startswith(t, <<"&", "&">>) THEN Some("LEADING_AND")
                    ELSE IF startswith(t, <<";">>) THEN Some("LEADING_SEMICOLON")
                    ELSE Null
        IN  code # Null =>
                /\ ~Res.is_valid
                /\ Res.error_code = code
                /\ Res.error_position = Some(lead)
                /\ \A k \in 1..lead : command[k] \in Whitespace

C15_Witness ==
    /\ Returned
    /\ QuoteCheckPasses(command)
    /\ TrailingCheckPasses(command)
    /\ Res.error_code = Some("LEADING_AND")
    /\ Res.error_position = Some(1)
    /\ \E k \in 3..Len(command) : command[k] = "&"

\* C14: a command whose quotes are closed and whose right-trimmed form ends
\* in one backslash gives TRAILING_BACKSLASH at that backslash.
C14_TrailingBackslash ==
    (Returned /\ ~Blank(command) /\ OpenKinds(command) = {}
        /\ EndsInOne(rstrip(command), BSLASH)) =>
        /\ Res.error_code = Some("TRAILING_BACKSLASH")
        /\ Res.error_position = Some(Len(rstrip(command)) - 1)

-----------------------------------------------------------------------------
(* Empty segments                                                           *)

\* the operator stands at offset p, outside quotes, and the characters next
\* to it are not its own character
OperatorAt(cmd, op, p) ==
    /\ p >= 0 /\ p + Len(op) <= Len(cmd)
    /\ Slice(cmd, p, p + Len(op)) = op
    /\ \A k \in p..(p + Len(op) - 1) : Active(cmd, k)
    /\ (p > 0 => At(cmd, p - 1) # op[1])
    /\ (p + Len(op) < Len(cmd) => At(cmd, p + Len(op)) # op[1])

\* offset p is inside a "(" or "$(" that is still open there
InsideParens(cmd, p) ==
    \E q \in NeverClosedOpeners(SubSeq(Tokens(cmd), 1, p)) :
        Tokens(cmd)[q + 1] \in {"(", "$("}

\* two occurrences of the operator, outside quotes and parentheses, with only
\* whitespace between them
EmptyBetween(cmd, op) ==
    \E p \in 0..(Len(cmd) - 1) : \E q \in (p + Len(op) + 1)..(Len(cmd) - 1) :
        /\ OperatorAt(cmd, op, p) /\ OperatorAt(cmd, op, q)
        /\ ~InsideParens(cmd, p) /\ ~InsideParens(cmd, q)
        /\ \A k \in (p + Len(op))..(q - 1) : At(cmd, k) \in Whitespace

EarlierChecksPass(cmd, n) == \A k \in 1..n : ~Fails(checks[k], cmd)

\* two split points of the operator with only whitespace between them
InteriorGap(cmd, op) ==
    \E p \in 0..(Len(cmd) - 1) : \E q \in (p + 1)..(Len(cmd) - 1) :
        /\ Slice(cmd, p, Min(Len(cmd), p + Len(op))) = op
        /\ Slice(cmd, q, Min(Len(cmd), q + Len(op))) = op
        /\ \A k \in (p + Len(op))..(q - 1) : At(cmd, k) \in Whitespace

\* C16: for a command that passes the earlier checks, two pipes outside
\* quotes and parentheses with only whitespace between them give
\* EMPTY_PIPE_SEGMENT, two && give EMPTY_AND_SEGMENT and two || give
\* EMPTY_OR_SEGMENT; these codes are given only for a gap between two
\* operators, never for an empty first or last segment.
C16_EmptyInteriorSegment ==
    (Returned /\ ~Blank(command)) =>
        /\ (EarlierChecksPass(command, 4) /\ EmptyBetween(command, <<"|">>)) =>
              Res.error_code = Some("EMPTY_PIPE_SEGMENT")
        /\ (EarlierChecksPass(command, 5) /\ EmptyBetween(command, <<"&", "&">>)) =>
              Res.error_code = Some("EMPTY_AND_SEGMENT")
        /\ (EarlierChecksPass(command, 5) /\ EmptyBetween(command, <<"|", "|">>)) =>
              Res.error_code \in {Some("EMPTY_AND_SEGMENT"), Some("EMPTY_OR_SEGMENT")}
        /\ Res.error_code = Some("EMPTY_PIPE_SEGMENT") => InteriorGap(command, <<"|">>)
        /\ Res.error_code = Some("EMPTY_AND_SEGMENT") => InteriorGap(command, <<"&", "&">>)
        /\ Res.error_code = Some("EMPTY_OR_SEGMENT") => InteriorGap(command, <<"|", "|">>)

-----------------------------------------------------------------------------
(* Operators inside quotes                                                  *)

OperatorChars == {"|", "&", ";", "<", ">", "="}

\* offset k lies inside a single- or double-quoted region
InQuotes(cmd, k) == RefLex(cmd, k).sq \/ RefLex(cmd, k).dq

\* the command holds operator characters, and all of them inside quotes
OperatorsOnlyQuoted(cmd) ==
    /\ \E k \in 0..(Len(cmd) - 1) : At(cmd, k) \in OperatorChars
    /\ \A k \in 0..(Len(cmd) - 1) : At(cmd, k) \in OperatorChars => InQuotes(cmd, k)

OperatorBoundaryCodes ==
    {"TRAILING_PIPE", "TRAILING_AND", "TRAILING_OR", "TRAILING_REDIRECT",
     "TRAILING_SEMICOLON", "LEADING_PIPE", "LEADING_AND", "LEADING_OR",
     "LEADING_SEMICOLON", "EMPTY_PIPE_SEGMENT", "EMPTY_AND_SEGMENT",
     "EMPTY_OR_SEGMENT", "REDIRECT_WITHOUT_TARGET", "CONSECUTIVE_SEMICOLONS",
     "INVALID_VARIABLE_ASSIGNMENT"}

\* C17: a command whose operator characters all lie inside single- or
\* double-quoted regions never gets an operator-boundary error code.
C17_QuotedOperatorsIgnored ==
    (Returned /\ ~Blank(command) /\ OperatorsOnlyQuoted(command)) =>
        \A code \in OperatorBoundaryCodes : Res.error_code # Some(code)

-----------------------------------------------------------------------------
(* Control-flow keywords                                                    *)

\* the control-flow check, the last of the nine, has run in this call
KeywordCheckRan == Len(ran) = 9

LoopWords == {Word_for, Word_while, Word_until, Word_select}

\* the words that open what the closing word closes
OpeningWords(closing) ==
    IF closing = Word_fi THEN {Word_if}
    ELSE IF closing = Word_done THEN LoopWords
    ELSE {Word_case}

UnmatchedKeywordCode(closing) ==
    IF closing = Word_fi THEN "UNMATCHED_IF_THEN_FI"
    ELSE IF closing = Word_done THEN "UNMATCHED_FOR_DO_DONE"
    ELSE "UNMATCHED_CASE_ESAC"

\* the places of the closing words that have no opening word left to close
UnmatchedWords(words) ==
    {n \in 1..Len(words) :
        /\ words[n] \in {Word_fi, Word_done, Word_esac}
        /\ CountWords(words, n, {words[n]})
              > CountWords(words, n, OpeningWords(words[n]))}

\* C18: when the control-flow check runs, the first fi, done or esac that has
\* no open if, loop or case before it makes validate fail with
\* UNMATCHED_IF_THEN_FI, UNMATCHED_FOR_DO_DONE or UNMATCHED_CASE_ESAC,
\* whatever words follow; for ...; done done fails with UNMATCHED_FOR_DO_DONE.
C18_UnmatchedKeywordFailsFast ==
    /\ (Returned /\ ~Blank(command) /\ KeywordCheckRan) =>
          LET words == extract_unquoted_words(command)
              bad == UnmatchedWords(words)
          IN  bad # {} =>
                /\ ~Res.is_valid
                /\ Res.error_code = Some(UnmatchedKeywordCode(words[SetMin(bad)]))
                /\ KeywordScan(words, SetMin(bad)).ret # Null
                /\ KeywordScan(words, SetMin(bad) - 1).ret = Null
    /\ (Returned /\ command = Ex_done_done) =>
          (~Res.is_valid /\ Res.error_code = Some("UNMATCHED_FOR_DO_DONE"))

C18_Witness ==
    /\ Returned
    /\ ~Blank(command)
    /\ KeywordCheckRan
    /\ UnmatchedWords(extract_unquoted_words(command)) # {}
    /\ SetMin(UnmatchedWords(extract_unquoted_words(command))) = 2
    /\ Res.error_code = Some("UNMATCHED_IF_THEN_FI")
    /\ Len(extract_unquoted_words(command)) = 3
    /\ extract_unquoted_words(command)[3] = Word_if

\* the counters at the end of the keyword scan
FinalCounters(cmd) ==
    KeywordScan(extract_unquoted_words(cmd), Len(extract_unquoted_words(cmd)))

Families == {"if", "for", "while", "until", "select", "case"}

CounterOf(st, family) ==
    CASE family = "if" -> st.if_count
      [] family = "for" -> st.for_count
      [] family = "while" -> st.while_count
      [] family = "until" -> st.until_count
      [] family = "select" -> st.select_count
      [] family = "case" -> st.case_count

UnclosedKeywordCode(family) ==
    CASE family = "if" -> "UNMATCHED_IF_THEN_FI"
      [] family \in {"for", "select"} -> "UNMATCHED_FOR_DO_DONE"
      [] family \in {"while", "until"} -> "UNMATCHED_WHILE_DO_DONE"
      [] family = "case" -> "UNMATCHED_CASE_ESAC"

\* the message that names the keyword left open
UnclosedKeywordText(family) ==
    CASE family = "if" -> "Unclosed 'if' statement - missing 'fi' ({n} unclosed)"
      [] family = "for" -> "Unclosed 'for' loop - missing 'done' ({n} unclosed)"
      [] family = "while" -> "Unclosed 'while' loop - missing 'done' ({n} unclosed)"
      [] family = "until" -> "Unclosed 'until' loop - missing 'done' ({n} unclosed)"
      [] family = "select" -> "Unclosed 'select' statement - missing 'done' ({n} unclosed)"
      [] family = "case" -> "Unclosed 'case' statement - missing 'esac' ({n} unclosed)"

\* C19: when the keyword scan ends without an early failure, a positive
\* counter makes validate fail with the unclosed code of a family whose
\* counter is positive, in a message that names its keyword and gives the
\* counter's value; when all counters are zero the check passes. The counters
\* are the numbers of opening words not yet closed.
C19_UnclosedKeyword ==
    (Returned /\ ~Blank(command) /\ KeywordCheckRan
        /\ FinalCounters(command).ret = Null) =>
        LET st == FinalCounters(command)
            words == extract_unquoted_words(command)
            n == Len(words)
        IN  /\ st.if_count = CountWords(words, n, {Word_if}) - CountWords(words, n, {Word_fi})
            /\ st.case_count
                  = CountWords(words, n, {Word_case}) - CountWords(words, n, {Word_esac})
            /\ st.for_count + st.while_count + st.until_count + st.select_count
                  = CountWords(words, n, LoopWords) - CountWords(words, n, {Word_done})
            /\ \A f \in Families : CounterOf(st, f) >= 0
            /\ (\A f \in Families : CounterOf(st, f) = 0) => Res.is_valid
            /\ (\E f \in Families : CounterOf(st, f) > 0) =>
                  /\ ~Res.is_valid
                  /\ \E f \in Families :
                        /\ CounterOf(st, f) > 0
                        /\ Res.error_code = Some(UnclosedKeywordCode(f))
                        /\ Res.error_message
                              = TextNum(UnclosedKeywordText(f), CounterOf(st, f))

C19_Witness ==
    /\ Returned
    /\ ~Blank(command)
    /\ KeywordCheckRan
    /\ FinalCounters(command).ret = Null
    /\ FinalCounters(command).until_count = 1
    /\ Contains(extract_unquoted_words(command), Word_for)
    /\ Contains(extract_unquoted_words(command), Word_done)
    /\ Res.error_code = Some("UNMATCHED_WHILE_DO_DONE")
    /\ Res.error_message = TextNum(UnclosedKeywordText("until"), 1)

-----------------------------------------------------------------------------
(* The quote scan and the second tokenizer                                  *)

UnclosedQuoteCodes ==
    {"UNCLOSED_SINGLE_QUOTE", "UNCLOSED_DOUBLE_QUOTE", "UNCLOSED_BACKTICK"}

\* C20: when the quote scan ends with a quote open, its UNCLOSED_* result is
\* returned and shlex.split has not been called; when the scan ends with no
\* quote open and shlex.split rejects the command, validate returns an invalid
\* result with PARSE_ERROR and no error_position.
C20_ScanBeforeTokenizer ==
    (Returned /\ ~Blank(command)) =>
        /\ OpenKinds(command) # {} =>
              /\ ~tokenized
              /\ ~Res.is_valid
              /\ \E code \in UnclosedQuoteCodes : Res.error_code = Some(code)
              /\ Res.error_position # Null
        /\ (OpenKinds(command) = {} /\ shlex_split_error(command) # Null) =>
              /\ tokenized
              /\ ~Res.is_valid
              /\ Res.error_code = Some("PARSE_ERROR")
              /\ Res.error_position = Null
        /\ OpenKinds(command) = {} => tokenized

C20_Witness ==
    /\ Returned
    /\ ~Blank(command)
    /\ OpenKinds(command) = {}
    /\ tokenized
    /\ Res.error_code = Some("PARSE_ERROR")
    /\ Res.error_message
          = TextStr("Shell parsing error: {s}", <<"No closing quotation">>)
    /\ At(command, 0) = BTICK

-----------------------------------------------------------------------------
(* What a failure of shlex.split does to the call                           *)

\* the quote check is the check the call returned from
ReturnedFromQuoteCheck == Returned /\ ran = <<"_check_quotes_detailed">>

\* C21 as stated: a failure of shlex.split alone, the quote scan having found
\* nothing open, never makes validate raise and never makes it return an
\* invalid result: the call goes on as if nothing had been found.
C21_CrossCheckDegrades ==
    /\ tokenized => pc # "raised"
    /\ (Returned /\ tokenized /\ shlex_split_error(command) # Null) =>
          ~(ReturnedFromQuoteCheck /\ ~Res.is_valid)

\* C21: a failure of shlex.split never makes validate raise: its ValueError is
\* caught and returned as an invalid ValidationResult with PARSE_ERROR, and
\* this is the only defect the call of shlex.split adds: when shlex.split
\* returns, the quote check passes and the call goes on to the next check.
C21_CrossCheckNeverRaises ==
    /\ tokenized => pc # "raised"
    /\ (Returned /\ tokenized) =>
          /\ IsValidationResult(Res)
          /\ shlex_split_error(command) # Null =>
                /\ ReturnedFromQuoteCheck
                /\ ~Res.is_valid
                /\ Res.error_code = Some("PARSE_ERROR")
          /\ shlex_split_error(command) = Null =>
                /\ Len(ran) >= 2
                /\ Res.error_code # Some("PARSE_ERROR")

C21_Witness ==
    /\ ReturnedFromQuoteCheck
    /\ tokenized
    /\ shlex_split_error(command) = Some(<<"No escaped character">>)
    /\ Res.error_code = Some("PARSE_ERROR")
    /\ Len(command) >= 2

-----------------------------------------------------------------------------
(* The codes validate returns                                               *)

\* the closed enumeration of the specification
SpecErrorCodes ==
    {"EMPTY_COMMAND", "UNCLOSED_SINGLE_QUOTE", "UNCLOSED_DOUBLE_QUOTE",
     "UNCLOSED_BACKTICK", "TRAILING_PIPE", "TRAILING_AND", "TRAILING_OR",
     "TRAILING_REDIRECT", "TRAILING_SEMICOLON", "TRAILING_BACKSLASH",
     "LEADING_PIPE", "LEADING_AND", "LEADING_OR", "LEADING_SEMICOLON",
     "UNCLOSED_PARENTHESIS", "UNCLOSED_BRACE", "UNCLOSED_BRACKET",
     "UNMATCHED_PARENTHESIS", "UNMATCHED_BRACE", "UNMATCHED_BRACKET",
     "EMPTY_PIPE_SEGMENT", "EMPTY_AND_SEGMENT", "EMPTY_OR_SEGMENT",
     "CONSECUTIVE_SEMICOLONS", "INVALID_VARIABLE_ASSIGNMENT",
     "REDIRECT_WITHOUT_TARGET", "UNCLOSED_COMMAND_SUBSTITUTION",
     "UNMATCHED_IF_THEN_FI", "UNMATCHED_FOR_DO_DONE",
     "UNMATCHED_WHILE_DO_DONE", "UNMATCHED_CASE_ESAC", "PARSE_ERROR"}

\* C22: every error code validate returns is in the closed enumeration of the
\* specification; UNCLOSED_SUBSHELL, which the source defines in addition, is
\* never returned, and an invalid result always carries a code.
C22_ClosedEnumeration ==
    Returned =>
        /\ Res.error_code # Null => Res.error_code[1] \in SpecErrorCodes
        /\ Res.error_code # Some("UNCLOSED_SUBSHELL")
        /\ ~Res.is_valid => Res.error_code # Null
        /\ ValidationErrorCode \ SpecErrorCodes = {"UNCLOSED_SUBSHELL"}

\* a $( left open: the case the additional code would name
C22_Witness ==
    /\ Returned
    /\ Res.error_code = Some("UNCLOSED_COMMAND_SUBSTITUTION")
    /\ Res.error_position = Some(0)
    /\ command = <<"$", "(">>

-----------------------------------------------------------------------------
(* Two calls at once                                                        *)

\* C23: with two calls of validate running at once on the shared validator,
\* under every interleaving of their steps each call returns the result it
\* returns when run alone, neither raises, and the table of patterns both
\* read is never written.
C23_ConcurrentCallsIndependent ==
    /\ patterns = CompiledPatterns
    /\ pc # "raised"
    /\ peer.pc # "raised"
    /\ Returned => Res = validate(command, CompiledPatterns)
    /\ peer.pc = "done" => peer.result[1] = validate(peer.command, CompiledPatterns)

\* the first call has returned from a check that read the table while the
\* second was between two checks, and the second then read the same pattern
C23_Witness ==
    /\ Returned
    /\ Res.error_code = Some("CONSECUTIVE_SEMICOLONS")
    /\ peer.pc = "done"
    /\ peer.command = command
    /\ peer.result = result
    /\ peer.idx = 8

-----------------------------------------------------------------------------
(* What save_options writes                                                 *)

\* the offsets of the commands validate accepts
AcceptedAt(commands) ==
    {i \in 1..Len(commands) : validate(commands[i].command, CompiledPatterns).is_valid}

\* w holds exactly the accepted commands, in their order in commands
ExactlyAccepted(w, commands) ==
    LET V == AcceptedAt(commands)
    IN  /\ Len(w) = Cardinality(V)
        /\ \A i \in V : w[Cardinality({j \in V : j <= i})] = commands[i]

\* C24: every step that changes the history file leaves the entries it had
\* and appends one entry made from the options passed: its commands are
\* exactly those validate accepts, in their original order, and its is_valid
\* and explanation_if_not_valid are those of the options; so no command
\* validate rejects is ever written to the file.
C24_OnlyValidPersisted ==
    [][history' # history =>
        /\ requests'[Len(requests')] # Null
        /\ history' = Append(history, history'[Len(history')])
        /\ LET written == history'[Len(history')].response
               options == requests'[Len(requests')][1]
           IN  /\ ExactlyAccepted(written.commands, options.commands)
               /\ written.is_valid = options.is_valid
               /\ written.explanation_if_not_valid
                     = options.explanation_if_not_valid]_vars

\* a response with a rejected command between two accepted ones was saved
C24_Witness ==
    /\ Len(history) = 1
    /\ Len(requests) = 1
    /\ requests[1] # Null
    /\ Len(requests[1][1].commands) = 3
    /\ requests[1][1].commands[2].command = <<"a", "|">>
    /\ Len(history[1].response.commands) = 2
    /\ history[1].response.commands[1] # history[1].response.commands[2]
    /\ ~history[1].response.is_valid

-----------------------------------------------------------------------------
(* The regions of the quote scan                                            *)

\* the kinds of quote open after the first n characters
OpenAfter(cmd, n) == {kind \in QuoteKinds : StartOf(QuoteScan(cmd, n), kind) # Null}

\* C25: at every point of the quote scan at most one of the three regions is
\* open, and a quote character read while a region of another kind is open
\* changes nothing.
C25_RegionsExclusive ==
    (ran # <<>> /\ command # NoneCommand) =>
        \A n \in 0..Len(command) :
            /\ Cardinality(OpenAfter(command, n)) <= 1
            /\ n < Len(command) =>
                  \A kind \in QuoteKinds :
                     (/\ At(command, n) = QuoteChar(kind)
                      /\ OpenAfter(command, n) \ {kind} # {}
                      /\ ~QuoteScan(command, n).escaped)
                     => OpenAfter(command, n + 1) = OpenAfter(command, n)

-----------------------------------------------------------------------------
(* Delimiters inside quoted regions                                         *)

\* the offsets at which an iteration of the delimiter loop pushes an offset,
\* pops one, or returns a failure
RECURSIVE TrackedOffsets(_, _, _)
TrackedOffsets(cmd, st, has_case) ==
    IF st.i >= Len(cmd) \/ st.ret # Null THEN {}
    ELSE LET next == DelimStep(cmd, st, has_case)
             tracked ==
                \/ next.paren_stack # st.paren_stack
                \/ next.brace_stack # st.brace_stack
                \/ next.bracket_stack # st.bracket_stack
                \/ next.subshell_stack # st.subshell_stack
                \/ next.ret # Null
         IN  (IF tracked THEN {st.i} ELSE {}) \cup TrackedOffsets(cmd, next, has_case)

\* the character at offset k lies inside a region of one of these kinds, as
\* the quote scan reads the command
QuotedAt(cmd, k, kinds) == OpenAfter(cmd, k) \cap kinds # {}

\* C26: a delimiter character inside a single-quoted, double-quoted or
\* backtick-quoted region is never pushed on a delimiter stack and never
\* matched against one.
C26_QuotedDelimitersUntracked ==
    DelimiterCheckRan =>
        \A k \in TrackedOffsets(command, DelimInit, HasCaseIn(command)) :
            ~QuotedAt(command, k, QuoteKinds)

-----------------------------------------------------------------------------
(* The two stacks of parenthesis-like openers as one                        *)

\* the states the delimiter loop goes through, from st on
RECURSIVE DelimStates(_, _, _)
DelimStates(cmd, st, has_case) ==
    IF st.i >= Len(cmd) \/ st.ret # Null THEN {st}
    ELSE {st} \cup DelimStates(cmd, DelimStep(cmd, st, has_case), has_case)

\* a matcher with one stack for "(" and "$(": the offsets open after the first
\* n characters; a ")" closes the opener on top, and is passed over when
\* nothing is open
RECURSIVE SingleStack(_, _)
SingleStack(toks, n) ==
    IF n = 0 THEN <<>>
    ELSE LET stack == SingleStack(toks, n - 1)
             tok == toks[n]
         IN  IF tok \in {"(", "$("} THEN Append(stack, n - 1)
             ELSE IF tok = ")" /\ stack # <<>> THEN SubSeq(stack, 1, Len(stack) - 1)
             ELSE stack

\* C27: after every prefix the delimiter loop has read, the offsets held by
\* paren_stack and subshell_stack together are those a matcher with a single
\* stack holds: each ")" closes the most recently opened of the open "(" and
\* "$(".
C27_TwoStacksAsOne ==
    DelimiterCheckRan =>
        \A st \in DelimStates(command, DelimInit, HasCaseIn(command)) :
            /\ Offsets(st.paren_stack) \cup Offsets(st.subshell_stack)
                  = Offsets(SingleStack(Tokens(command), st.i))
            /\ Offsets(st.paren_stack) \cap Offsets(st.subshell_stack) = {}
            /\ Increasing(st.paren_stack)
            /\ Increasing(st.subshell_stack)

\* a ")" was read with both stacks holding an opener, the "$(" the later one
C27_Witness ==
    /\ DelimiterCheckFailed
    /\ Res.error_code = Some("UNCLOSED_PARENTHESIS")
    /\ \E st \in DelimStates(command, DelimInit, HasCaseIn(command)) :
          /\ st.i < Len(command)
          /\ TokenAt(command, st.i) = ")"
          /\ st.paren_stack # <<>>
          /\ st.subshell_stack # <<>>
          /\ Top(st.subshell_stack) > Top(st.paren_stack)

-----------------------------------------------------------------------------
(* The backslash in the quote scan                                          *)

\* the start offsets the quote scan holds after the first n characters
StartsAfter(cmd, n) ==
    LET st == QuoteScan(cmd, n)
    IN  <<st.single_quote_start, st.double_quote_start, st.backtick_start>>

\* the backslashes the scan reads as such: not themselves skipped
BackslashesRead(cmd) ==
    {n \in 0..(Len(cmd) - 1) : At(cmd, n) = BSLASH /\ ~QuoteScan(cmd, n).escaped}

\* C28: in the quote scan a backslash inside single quotes is literal: the
\* character after it is read as if the backslash were any other character,
\* so a single quote after it closes the region; a backslash inside double
\* quotes or outside all quotes makes the scan skip the next character, so
\* that character opens and closes nothing.
C28_BackslashInQuoteScan ==
    (ran # <<>> /\ command # NoneCommand) =>
        \A n \in BackslashesRead(command) :
            LET open == OpenAfter(command, n)
            IN  /\ StartsAfter(command, n + 1) = StartsAfter(command, n)
                /\ "single" \in open =>
                      /\ ~QuoteScan(command, n + 1).escaped
                      /\ (n + 1 < Len(command) /\ At(command, n + 1) = SQUOTE)
                            => "single" \notin OpenAfter(command, n + 2)
                /\ ("double" \in open \/ open = {}) =>
                      /\ QuoteScan(command, n + 1).escaped
                      /\ n + 1 < Len(command) =>
                            /\ StartsAfter(command, n + 2) = StartsAfter(command, n)
                            /\ ~QuoteScan(command, n + 2).escaped

\* a double quote escaped inside double quotes left the region open, and the
\* command was rejected for it
C28_Witness ==
    /\ Returned
    /\ Res.error_code = Some("UNCLOSED_DOUBLE_QUOTE")
    /\ Res.error_position = Some(0)
    /\ Len(command) = 4
    /\ At(command, 2) = BSLASH
    /\ At(command, 3) = DQUOTE
    /\ 2 \in BackslashesRead(command)

-----------------------------------------------------------------------------
(* Where the splitter splits                                                *)

\* the summed length of the first j segments
RECURSIVE LengthOfFirst(_, _)
LengthOfFirst(segments, j) ==
    IF j = 0 THEN 0 ELSE LengthOfFirst(segments, j - 1) + Len(segments[j])

\* the offsets of the operator occurrences the segments were split at: the
\* j-th one follows j segments and j - 1 operators
SplitPoints(segments, op_len) ==
    {LengthOfFirst(segments, j) + (j - 1) * op_len : j \in 1..(Len(segments) - 1)}

PipeCheckRan == Len(ran) >= 5

\* C29: the pipe splitter splits only at a | that is neither preceded nor
\* followed by another |, so a command whose only | characters form || stays
\* one segment.
C29_PipeSplitSkipsDoubleBar ==
    PipeCheckRan =>
        LET segments == split_by_operator(command, <<"|">>, TRUE)
        IN  \A p \in SplitPoints(segments, 1) :
               /\ At(command, p) = "|"
               /\ ~(p > 0 /\ At(command, p - 1) = "|")
               /\ ~(p + 1 < Len(command) /\ At(command, p + 1) = "|")


\* the segments put together again, with the operator between them
RECURSIVE Join(_, _)
Join(segments, operator) ==
    IF Len(segments) = 1 THEN segments[1]
    ELSE Join(SubSeq(segments, 1, Len(segments) - 1), operator)
            \o operator \o segments[Len(segments)]

\* the number of "(" less the number of ")" before offset p, counting those
\* outside quotes and not escaped
ParenDepth(cmd, p) ==
    Cardinality({k \in 0..(p - 1) : At(cmd, k) = "(" /\ Active(cmd, k)})
        - Cardinality({k \in 0..(p - 1) : At(cmd, k) = ")" /\ Active(cmd, k)})

\* the splitter splits at the operator only outside quotes, not after an
\* escaping backslash and at depth zero, and loses no other character
SplitsWell(cmd, operator, exclude_double) ==
    LET segments == split_by_operator(cmd, operator, exclude_double)
    IN  /\ Join(segments, operator) = cmd
        /\ \A p \in SplitPoints(segments, Len(operator)) :
              /\ Slice(cmd, p, p + Len(operator)) = operator
              /\ Active(cmd, p)
              /\ ParenDepth(cmd, p) = 0

LogicalCheckRan == Len(ran) >= 6

\* C30: the segment splitter never splits at an operator inside single or
\* double quotes, directly after an escaping backslash, or at a parenthesis
\* depth other than zero; the segments, put together with the operator
\* between them, are the command: every other character is kept, in order, in
\* exactly one segment.
C30_SplitterKeepsAndSkips ==
    /\ PipeCheckRan => SplitsWell(command, <<"|">>, TRUE)
    /\ LogicalCheckRan =>
          /\ SplitsWell(command, <<"&", "&">>, FALSE)
          /\ SplitsWell(command, <<"|", "|">>, FALSE)

\* a pipe inside parentheses was read by the splitter and not split at
C30_Witness ==
    /\ Returned
    /\ Res.is_valid
    /\ split_by_operator(command, <<"|">>, TRUE) = <<command>>
    /\ \E p \in 0..(Len(command) - 1) :
          /\ At(command, p) = "|"
          /\ Active(command, p)
          /\ ParenDepth(command, p) = 1

-----------------------------------------------------------------------------
(* The loop counters                                                        *)

\* the order in which done tries the loop counters
DoneOrder == <<"for", "while", "until", "select">>

\* the places in DoneOrder of the counters that are not zero
OpenLoops(st) == {j \in 1..Len(DoneOrder) : CounterOf(st, DoneOrder[j]) # 0}

\* the counters before and after the n-th word
Before(words, n) == KeywordScan(words, n - 1)
After(words, n) == KeywordScan(words, n)

\* C31: on each done read while a loop counter is not zero, exactly one loop
\* counter is decremented by one, the first that is not zero in the order
\* for, while, until, select, and every other counter is left unchanged (a
\* done read with all four at zero ends the scan and changes no counter);
\* while the scan continues no counter is negative.
C31_DoneDecrementsFirstOpenLoop ==
    KeywordCheckRan =>
        LET words == extract_unquoted_words(command)
        IN  \A n \in 1..Len(words) :
              LET b == Before(words, n)
                  a == After(words, n)
              IN  /\ (b.ret = Null /\ words[n] = Word_done) =>
                        IF OpenLoops(b) # {}
                        THEN /\ a.ret = Null
                             /\ \A f \in Families :
                                  CounterOf(a, f) = CounterOf(b, f)
                                    - (IF f = DoneOrder[SetMin(OpenLoops(b))]
                                       THEN 1 ELSE 0)
                        ELSE /\ a.ret # Null
                             /\ \A f \in Families : CounterOf(a, f) = CounterOf(b, f)
                  /\ a.ret = Null => \A f \in Families : CounterOf(a, f) >= 0

\* done was read with a while and a select open and no for: the while closed
C31_Witness ==
    /\ Returned
    /\ KeywordCheckRan
    /\ LET words == extract_unquoted_words(command)
       IN  /\ Len(words) = 3
           /\ words[3] = Word_done
           /\ Before(words, 3).for_count = 0
           /\ Before(words, 3).while_count = 1
           /\ Before(words, 3).select_count = 1
           /\ After(words, 3).while_count = 0
           /\ After(words, 3).select_count = 1
    /\ Res.error_code = Some("UNMATCHED_FOR_DO_DONE")

\* C32: the control-flow check accepts the words of a command exactly when
\* a reference with three counters accepts them (if against fi; for, while,
\* until and select together against done; case against esac): in every
\* prefix the closing words do not outnumber the opening words, and at the
\* end the totals are equal. The reference has no order among the loop
\* openers, so the order done tries them in decides which family an error
\* names and never whether the command is valid.
C32_ThreeCounterReference ==
    (Returned /\ ~Blank(command) /\ KeywordCheckRan) =>
        /\ Res.is_valid <=> BalancedKeywords(command)
        /\ Res.is_valid <=>
              /\ FinalCounters(command).ret = Null
              /\ \A f \in Families : CounterOf(FinalCounters(command), f) = 0

\* two loops of different kinds, closed innermost first by two done
C32_Witness ==
    /\ Returned
    /\ KeywordCheckRan
    /\ Res.is_valid
    /\ LET words == extract_unquoted_words(command)
       IN  /\ Len(words) = 4
           /\ words[1] = Word_while
           /\ words[2] = Word_for
           /\ After(words, 3).for_count = 0
           /\ After(words, 3).while_count = 1
           /\ After(words, 4).while_count = 0

-----------------------------------------------------------------------------
(* Semicolons                                                               *)

StructureCheckRan == Len(ran) >= 8

\* two semicolons with nothing or only whitespace between them, the first at a
SemicolonPairAt(cmd, a) ==
    /\ At(cmd, a) = ";"
    /\ \E b \in (a + 1)..(Len(cmd) - 1) :
          /\ At(cmd, b) = ";"
          /\ \A k \in (a + 1)..(b - 1) : At(cmd, k) \in Whitespace

\* offset p lies between a case and its esac
InsideCase(cmd, p) ==
    LET before == extract_unquoted_words(Slice(cmd, 0, p))
    IN  CountWords(before, Len(before), {Word_case})
            > CountWords(before, Len(before), {Word_esac})

NoQuotedSemicolon(cmd) ==
    \A k \in 0..(Len(cmd) - 1) : At(cmd, k) = ";" => Active(cmd, k)

\* C33: when the structure check runs on a command, two consecutive
\* semicolons outside a case construct make validate fail with
\* CONSECUTIVE_SEMICOLONS, error_position at the first semicolon of a pair;
\* so a pair is let through only between case and esac.
C33_ConsecutiveSemicolons ==
    (Returned /\ ~Blank(command) /\ StructureCheckRan /\ NoQuotedSemicolon(command)) =>
        LET outside == {a \in 0..(Len(command) - 1) :
                            SemicolonPairAt(command, a) /\ ~InsideCase(command, a)}
        IN  outside # {} =>
              /\ ~Res.is_valid
              /\ Res.error_code = Some("CONSECUTIVE_SEMICOLONS")
              /\ Res.error_position # Null
              /\ SemicolonPairAt(command, Res.error_position[1])

\* C34: validate returns TRAILING_SEMICOLON exactly when the command without
\* its leading and trailing whitespace is a single semicolon; a command that
\* has content before its trailing semicolon passes the trailing check.
C34_BareSemicolon ==
    (Returned /\ command # NoneCommand) =>
        /\ (~Res.is_valid /\ Res.error_code = Some("TRAILING_SEMICOLON"))
              <=> strip(command) = <<";">>
        /\ (endswith(rstrip(command), <<";">>) /\ strip(command) # <<";">>)
              => TrailingCheckPasses(command)

-----------------------------------------------------------------------------
(* Redirections at the end                                                  *)

RedirectChars == {"<", ">"}

\* the offset where the run of < and > that ends t begins
FinalRunStart(t) ==
    SetMin({a \in 0..(Len(t) - 1) : \A k \in a..(Len(t) - 1) : At(t, k) \in RedirectChars})

\* C35: for a command that passes the quote check and whose right-trimmed
\* form ends in < or >, validate returns REDIRECT_WITHOUT_TARGET with
\* error_position at the first character of the final run of < and >; a
\* right-trimmed form ending in <& or >& returns REDIRECT_WITHOUT_TARGET too;
\* a single & at the end that follows neither < nor > passes the trailing
\* check; TRAILING_REDIRECT is never returned.
C35_RedirectWithoutTarget ==
    (Returned /\ command # NoneCommand) =>
        /\ Res.error_code # Some("TRAILING_REDIRECT")
        /\ (~Blank(command) /\ QuoteCheckPasses(command)) =>
              LET t == rstrip(command)
                  n == Len(t)
              IN  /\ t[n] \in RedirectChars =>
                        /\ ~Res.is_valid
                        /\ Res.error_code = Some("REDIRECT_WITHOUT_TARGET")
                        /\ Res.error_position = Some(FinalRunStart(t))
                  /\ (n >= 2 /\ t[n] = "&" /\ t[n - 1] \in RedirectChars) =>
                        /\ ~Res.is_valid
                        /\ Res.error_code = Some("REDIRECT_WITHOUT_TARGET")
                  /\ (t[n] = "&" /\ (n = 1 \/ t[n - 1] \notin RedirectChars \cup {"&"})) =>
                        TrailingCheckPasses(command)

\* the command ends in a run of < and > that is not its first such character
C35_Witness ==
    /\ Returned
    /\ command # NoneCommand
    /\ QuoteCheckPasses(command)
    /\ command = rstrip(command)
    /\ Len(command) = 3
    /\ At(command, 0) = ">"
    /\ At(command, 2) = ">"
    /\ FinalRunStart(command) = 2
    /\ Res.error_code = Some("REDIRECT_WITHOUT_TARGET")
    /\ Res.error_position = Some(2)

-----------------------------------------------------------------------------
(* Quoted keywords                                                          *)

SingleOrDouble == {"single", "double"}

\* the character at offset k lies inside a single-quoted or double-quoted
\* region of the quote scan and does not end it
Quoted(cmd, k) ==
    \E kind \in SingleOrDouble : kind \in OpenAfter(cmd, k) \cap OpenAfter(cmd, k + 1)

\* the command with every character inside quotes replaced by a plain one
Hidden(cmd) ==
    [j \in 1..Len(cmd) |-> IF Quoted(cmd, j - 1) THEN "a" ELSE cmd[j]]

Keywords ==
    {Word_if, Word_fi, Word_for, Word_while, Word_until, Word_select, Word_done,
     Word_case, Word_esac, Word_in}

\* a keyword stands at offset p, all of it inside quotes
QuotedKeywordAt(cmd, p) ==
    \E w \in Keywords :
        /\ p + Len(w) <= Len(cmd)
        /\ Slice(cmd, p, p + Len(w)) = w
        /\ \A k \in p..(p + Len(w) - 1) : Quoted(cmd, k)

\* C36: when the quote check has passed, the words the control-flow check,
\* the case exception and the ;; allowance are computed from are those of the
\* command with its quoted characters replaced: a keyword inside single or
\* double quotes is not counted, and case and in inside quotes enable nothing.
C36_QuotedKeywordsIgnored ==
    (Returned /\ command # NoneCommand /\ ~Blank(command) /\ QuoteCheckPasses(command)) =>
        LET words == extract_unquoted_words(command)
            shown == extract_unquoted_words(Hidden(command))
        IN  /\ words = shown
            /\ HasCaseIn(command) = HasCaseIn(Hidden(command))
            /\ check_control_flow_keywords(command, patterns)
                  = check_control_flow_keywords(Hidden(command), patterns)

-----------------------------------------------------------------------------
(* Error positions                                                          *)

\* what stands at the position an error of this code names: the opening
\* quote, the operator, the delimiter, the semicolon, the = sign
NamedBy(code) ==
    CASE code = "UNCLOSED_SINGLE_QUOTE" -> {<<SQUOTE>>}
      [] code = "UNCLOSED_DOUBLE_QUOTE" -> {<<DQUOTE>>}
      [] code = "UNCLOSED_BACKTICK" -> {<<BTICK>>}
      [] code \in {"TRAILING_PIPE", "LEADING_PIPE"} -> {<<"|">>}
      [] code \in {"TRAILING_AND", "LEADING_AND"} -> {<<"&", "&">>}
      [] code \in {"TRAILING_OR", "LEADING_OR"} -> {<<"|", "|">>}
      [] code = "REDIRECT_WITHOUT_TARGET" -> {<<"<">>, <<">">>}
      [] code \in {"TRAILING_SEMICOLON", "LEADING_SEMICOLON", "CONSECUTIVE_SEMICOLONS"}
            -> {<<";">>}
      [] code = "TRAILING_BACKSLASH" -> {<<BSLASH>>}
      [] code = "UNCLOSED_PARENTHESIS" -> {<<"(">>}
      [] code = "UNCLOSED_BRACE" -> {<<"{">>}
      [] code = "UNCLOSED_BRACKET" -> {<<"[">>}
      [] code = "UNCLOSED_COMMAND_SUBSTITUTION" -> {<<"$", "(">>}
      [] code = "UNMATCHED_PARENTHESIS" -> {<<")">>}
      [] code = "UNMATCHED_BRACE" -> {<<"}">>}
      [] code = "UNMATCHED_BRACKET" -> {<<"]">>}
      [] code = "INVALID_VARIABLE_ASSIGNMENT" -> {<<"=">>}
      [] OTHER -> {}

\* C37: an error_position that validate returns is an offset into the
\* command, and at that offset stands what the error names: the opening
\* quote, the first character of the operator, the unmatched or unclosed
\* delimiter, the semicolon or the = sign.
C37_PositionNamesCharacter ==
    (Returned /\ command # NoneCommand /\ Res.error_position # Null) =>
        LET p == Res.error_position[1]
        IN  /\ 0 <= p
            /\ p < Len(command)
            /\ Res.error_code # Null
            /\ \E w \in NamedBy(Res.error_code[1]) :
                  /\ p + Len(w) <= Len(command)
                  /\ Slice(command, p, p + Len(w)) = w

-----------------------------------------------------------------------------
(* Workflows                                                                *)

\* C38: after any sequence of mark_step_completed, mark_step_failed and
\* mark_step_skipped, is_complete is true only if the status of every step
\* is COMPLETED or SKIPPED: a workflow with a PENDING or FAILED step is not
\* reported complete.
C38_CompleteOnlyWhenAllDone ==
    workflow_state.is_complete =>
        \A j \in 1..Len(workflow_state.step_states) :
            workflow_state.step_states[j].status \in {"COMPLETED", "SKIPPED"}

\* the steps visited so far: those with a result
Visited == 1..Len(execution.results)

Launched(j) == \E k \in 1..Len(execution.launched) : execution.launched[k] = j

SkippedForDependency(j) ==
    execution.results[j].output = "Skipped due to dependency failure"

\* C39: a step after the first that depends on the previous one is run only
\* if the step just before it succeeded; when that step failed, was skipped
\* by the user or was itself skipped for a dependency failure, the step is
\* recorded as skipped and is not run; each step visited has exactly one
\* result; after the user stops the workflow no step is run.
C39_DependentStepsSkipped ==
    execution.pc # "none" =>
        /\ Len(execution.results)
              = execution.i + (IF execution.stopped THEN 1 ELSE 0)
        /\ \A j \in Visited :
              /\ execution.results[j].step = execution.steps[j]
              /\ execution.results[j].success => Launched(j)
              /\ (j > 1 /\ execution.steps[j].depends_on_previous) =>
                    IF execution.results[j - 1].success
                    THEN ~SkippedForDependency(j)
                    ELSE SkippedForDependency(j) /\ ~Launched(j)
              /\ (j = 1 \/ ~execution.steps[j].depends_on_previous) =>
                    ~SkippedForDependency(j)
        /\ \A k \in 1..Len(execution.launched) :
              /\ execution.launched[k] \in Visited
              /\ \A m \in 1..(k - 1) : execution.launched[m] < execution.launched[k]
        /\ execution.stopped =>
              /\ execution.pc \in {"summary", "done"}
              /\ execution.launched # <<>>
              /\ execution.launched[Len(execution.launched)] = Len(execution.results)
              /\ Len(execution.results) < Len(execution.steps)

\* the first step failed, the user went on, and the two steps that depend on
\* it, one after the other, were skipped without being run
C39_Witness ==
    /\ execution.pc = "done"
    /\ Len(execution.steps) = 3
    /\ Len(execution.results) = 3
    /\ execution.launched = <<1>>
    /\ ~execution.results[1].success
    /\ SkippedForDependency(2)
    /\ SkippedForDependency(3)

-----------------------------------------------------------------------------
(* The scanners after the quote check                                       *)

\* the scan ended outside single and double quotes and not after a backslash
EndsUnquoted(st) == ~st.in_single_quote /\ ~st.in_double_quote /\ ~st.escaped

\* the three calls of the segment splitter
SplitterCalls == {<<<<"|">>, TRUE>>, <<<<"&", "&">>, FALSE>>, <<<<"|", "|">>, FALSE>>}

\* C40: when the quote check has passed, the delimiter tracker (when it
\* reads the command to its end), the segment splitter in each of its three
\* calls and the word extractor end their scans outside single and double
\* quotes and not in the escaped state.
C40_LaterScansEndUnquoted ==
    (Returned /\ command # NoneCommand /\ ~Blank(command) /\ QuoteCheckPasses(command)) =>
        /\ LET st == DelimLoop(command, DelimInit, HasCaseIn(command))
           IN  st.ret = Null => (st.i >= Len(command) /\ EndsUnquoted(st))
        /\ \A call \in SplitterCalls :
              LET st == SplitLoop(command, call[1], call[2], SplitInit)
              IN  st.i >= Len(command) /\ EndsUnquoted(st)
        /\ EndsUnquoted(WordsScan(command, Len(command)))

\* a command accepted by all nine checks in which the quote scan passed over
\* a single quote inside a backtick region
C40_Witness ==
    /\ Returned
    /\ command # NoneCommand
    /\ Res.is_valid
    /\ KeywordCheckRan
    /\ tokenized
    /\ \E k \in 0..(Len(command) - 1) :
          /\ At(command, k) = SQUOTE
          /\ OpenAfter(command, k) = {"backtick"}
          /\ OpenAfter(command, k + 1) = {"backtick"}

====
